---- MODULE Spec2Model ----
(***************************************************************************)
(* Model of the thumbnail pipelines of the video exclusion toolbox: the    *)
(* age-evaluation processor (batch consumer), the age-evaluation           *)
(* dispatcher (HTTP function that batches unprocessed video ids and        *)
(* publishes them), the per-video thumbnail dispatcher, the thumbnail      *)
(* processor (annotation of the thumbnails of one video) and the cropout   *)
(* generator.                                                              *)
(*                                                                         *)
(* Python values are modelled as follows: a dict is a record, a list is a  *)
(* sequence, Optional[T] is a sequence of length at most one (None is the  *)
(* empty sequence), an exception leaving a function moves its caller's     *)
(* program counter to "raised".  External services (the thumbnail CDN,     *)
(* the LLM, BigQuery, Pub/Sub) answer nondeterministically from bounded    *)
(* sets of responses.                                                      *)
(***************************************************************************)
EXTENDS Integers, Sequences, FiniteSets, TLC

(***************************************************************************)
(* Bounds of the model.                                                    *)
(***************************************************************************)
\* Largest number of videos in one batch message handed to the processor.
MaxBatch == 2
\* Largest number of entries of the `items` array of one LLM response.
MaxItems == 2
\* Largest value of the wall clock (seconds) read by datetime.now().
MaxClock == 2
\* Largest number of distinct video ids in the dispatcher's source table.
MaxSource == 12
\* Largest number of source rows that repeat an earlier video id.
MaxDup == 1
\* Row orders BigQuery may return a result in: rotations 0..MaxRotation of the
\* source order (and the reversed order).
MaxRotation == 1
\* Largest number of rows of the CSV blob read by the thumbnail dispatcher.
MaxCsv == 3

(***************************************************************************)
(* Generic helpers.                                                        *)
(***************************************************************************)
None == <<>>
Some(x) == <<x>>

Min(a, b) == IF a < b THEN a ELSE b

SeqsUpTo(S, n) == UNION {[1..k -> S] : k \in 0..n}

Range(f) == {f[i] : i \in DOMAIN f}

\* A Python str of digits is a sequence of characters, so that str() and
\* int() are computed and not assumed.
Digits == <<"0", "1", "2", "3", "4", "5", "6", "7", "8", "9">>

\* str(n) for an int n >= 0.
RECURSIVE PyStr(_)
PyStr(n) ==
  IF n < 10 THEN <<Digits[n + 1]>>
  ELSE PyStr(n \div 10) \o <<Digits[(n % 10) + 1]>>

DigitValue(c) == (CHOOSE d \in DOMAIN Digits : Digits[d] = c) - 1

\* int(s) for a str s of decimal digits; None stands for ValueError.
RECURSIVE PyIntAcc(_, _)
PyIntAcc(s, acc) ==
  IF s = <<>> THEN Some(acc)
  ELSE IF Head(s) \notin Range(Digits) THEN None
  ELSE PyIntAcc(Tail(s), 10 * acc + DigitValue(Head(s)))
PyInt(s) == IF s = <<>> THEN None ELSE PyIntAcc(s, 0)

\* PyRange that also yields stop itself.
RECURSIVE PyRange_InclusiveStop(_, _, _)
PyRange_InclusiveStop(start, stop, step) ==
  IF start > stop THEN <<>>
  ELSE <<start>> \o PyRange_InclusiveStop(start + step, stop, step)

\* range(start, stop, step) for step > 0.
RECURSIVE PyRange(_, _, _)
PyRange(start, stop, step) ==
  IF start >= stop THEN <<>>
  ELSE <<start>> \o PyRange(start + step, stop, step)

\* PySlice with the end index taken as inclusive.
PySlice_InclusiveEnd(seq, a, b) == SubSeq(seq, a + 1, Min(b + 1, Len(seq)))

\* The slice seq[a:b] (0-based, b exclusive, clipped to the list).
PySlice(seq, a, b) == SubSeq(seq, a + 1, Min(b, Len(seq)))

\* math.ceil(n / b) and int(n / b) for n >= 0, b > 0.
PyCeilDiv(n, b) == IF n % b = 0 THEN n \div b ELSE (n \div b) + 1
PyIntDiv(n, b) == n \div b

\* The video id number n (n < 20).
Vid(n) == "v" \o (IF n < 10 THEN Digits[n + 1] ELSE "1" \o Digits[(n % 10) + 1])

(***************************************************************************)
(* AGE-EVALUATION PROCESSOR                                                *)
(* src/src/youtube_thumbnails_evaluate_age_processor/main.py               *)
(***************************************************************************)
VARIABLE
  bq_table         \* rows of the age-evaluation target table, in insertion order

VARIABLES
  videos,          \* run(): the `videos` argument (list of {video_id})
  vi,              \* run(): 1-based position of the outer `for video in videos`
  thumbnail_urls,  \* run(): the urls of the current video (inner loop)
  ti,              \* run(): 1-based position of the inner loop
  pc,              \* run(): "idle" | "lookup" | "evaluate" | "done" | "raised"
  head,            \* the CDN: video_id -> file name -> answer to a HEAD probe
  now,             \* the wall clock
  llm_log          \* generate_content calls so far: [video, url, outcome]

procVars == <<videos, vi, thumbnail_urls, ti, pc, head, now, llm_log>>

VideoIds == {Vid(1), Vid(2)}

GEMINI_MODEL == "GEMINI_MODEL"

\* _get_thumbnail_urls: the two lists probed, in order.
prefixes == <<"maxres", "sd", "hq", "mq", "">>
suffixes == <<"default", "1", "2", "3">>

FileNames == {prefixes[p] \o suffixes[s] : p \in DOMAIN prefixes, s \in DOMAIN suffixes}

\* What a HEAD request of a thumbnail url can come back with.
ProbeAnswers == {"200 image/jpeg", "200 text/html", "404", "503", "Timeout", "RequestException"}

ThumbnailUrl(video_id, prefix, suffix) ==
  "https://i.ytimg.com/vi/" \o video_id \o "/" \o prefix \o suffix \o ".jpg"

\* The test of the `if` in the probe loop: status 200 and an image content type.
IsHit(answer) == answer = "200 image/jpeg"

\* ProbePrefixes without the `break`: the urls of all the prefixes that hit.
RECURSIVE ProbePrefixes_NoBreak(_, _, _, _)
ProbePrefixes_NoBreak(cdn, video_id, suffix, p) ==
  IF p > Len(prefixes) THEN <<>>
  ELSE (IF IsHit(cdn[prefixes[p] \o suffix])
        THEN <<ThumbnailUrl(video_id, prefixes[p], suffix)>> ELSE <<>>)
       \o ProbePrefixes_NoBreak(cdn, video_id, suffix, p + 1)

\* The inner `for prefix in prefixes` loop from position p on: the url of the
\* first prefix that hits (then `break`), or nothing.
RECURSIVE ProbePrefixes(_, _, _, _)
ProbePrefixes(cdn, video_id, suffix, p) ==
  IF p > Len(prefixes) THEN <<>>
  ELSE IF IsHit(cdn[prefixes[p] \o suffix])
       THEN <<ThumbnailUrl(video_id, prefixes[p], suffix)>>
       ELSE ProbePrefixes(cdn, video_id, suffix, p + 1)

\* The outer `for suffix in suffixes` loop from position s on.
RECURSIVE ProbeSuffixes(_, _, _)
ProbeSuffixes(cdn, video_id, s) ==
  IF s > Len(suffixes) THEN <<>>
  ELSE ProbePrefixes(cdn, video_id, suffixes[s], 1) \o ProbeSuffixes(cdn, video_id, s + 1)

\* _get_thumbnail_urls(video_id): None when the list is empty.
GetThumbnailUrls(cdn, video_id) ==
  LET urls == ProbeSuffixes(cdn, video_id, 1)
  IN  IF urls = <<>> THEN None ELSE Some(urls)

\* CDN states the model starts from (per video).
CdnNoThumbnail ==
  [f \in FileNames |->
     IF f = "maxresdefault" THEN "200 text/html"
     ELSE IF f = "sddefault" THEN "Timeout"
     ELSE IF f = "hqdefault" THEN "503"
     ELSE IF f = "1" THEN "RequestException"
     ELSE "404"]
CdnOneThumbnail ==
  [f \in FileNames |-> IF f \in {"hqdefault", "mqdefault"} THEN "200 image/jpeg" ELSE "404"]
CdnTwoThumbnails ==
  [f \in FileNames |->
     IF f \in {"maxresdefault", "default", "mq2"} THEN "200 image/jpeg"
     ELSE IF f = "maxres2" THEN "Timeout"
     ELSE "404"]
CdnStates == {CdnNoThumbnail, CdnOneThumbnail, CdnTwoThumbnails}

\* class AgeEvaluation / ResponseSchema: the j-th entry of an `items` array
\* (entries differ from each other, so that their order is observable).
AgeEvaluationAt(j) ==
  [evaluated_description |-> IF j % 2 = 1 THEN "a child" ELSE "an adult",
   evaluated_age |-> 7 * j]

\* The `items` arrays the LLM answers with: 0..MaxItems entries.
ItemLists == {[j \in 1..n |-> AgeEvaluationAt(j)] : n \in 0..MaxItems}

\* What client.models.generate_content can do: raise APIError, or return a
\* response whose text is not JSON, or JSON without `items`, or JSON with an
\* `items` array.
LLMOutcomes ==
  {[kind |-> "APIError", error |-> "429 RESOURCE_EXHAUSTED"],
   [kind |-> "text", text |-> "Sorry, I cannot help", error |-> "Expecting value"],
   [kind |-> "json", body |-> [blocked |-> "SAFETY"]]}
  \cup {[kind |-> "json", body |-> [items |-> its]] : its \in ItemLists}

\* The failure dicts returned by _evaluate_thumbnail_age.
ApiErrorDescription(thumbnail_url, e) ==
  "Failed to evaluate thumbnail at " \o thumbnail_url \o ": \n" \o e \o "."
JsonErrorDescription(thumbnail_url, e) ==
  "Unable to parse response as JSON for thumbnail " \o thumbnail_url \o ": \n" \o e \o "."

\* dict item assignment response[k] = v on a record.
SetItem(d, k, v) == [f \in DOMAIN d \cup {k} |-> IF f = k THEN v ELSE d[f]]

\* _evaluate_thumbnail_age(thumbnail_url, ...) when generate_content does
\* `outcome` and datetime.now() reads t.
EvaluateThumbnailAge(thumbnail_url, outcome, t) ==
  IF outcome.kind = "APIError"
  THEN Some([datetime_updated |-> t,
             description |-> ApiErrorDescription(thumbnail_url, outcome.error)])
  ELSE IF outcome.kind = "text"
  THEN Some([datetime_updated |-> t,
             description |-> JsonErrorDescription(thumbnail_url, outcome.error)])
  ELSE Some(SetItem(outcome.body, "datetime_updated", t))

\* NoThumbnailRow with the failure row stamped with the LLM's model id.
NoThumbnailRow_ModelId(video_id, t) ==
  [video_id |-> video_id,
   datetime_updated |-> t,
   evaluation_model_id |-> "GEMINI_MODEL",
   evaluated_description |-> "No usable thumbnails found for video " \o video_id \o "."]

\* run(): the row written for a video without thumbnails.
NoThumbnailRow(video_id, t) ==
  [video_id |-> video_id,
   datetime_updated |-> t,
   evaluation_model_id |-> "NONE",
   evaluated_description |-> "No usable thumbnails found for video " \o video_id \o "."]

\* ResponseEnriched walking the items from the last to the first.
ResponseEnriched_Reversed(video_id, thumbnail_url, response) ==
  [j \in 1..Len(response.items) |->
     [video_id |-> video_id,
      thumbnail_url |-> thumbnail_url,
      datetime_updated |-> response.datetime_updated,
      evaluation_model_id |-> "GEMINI_MODEL",
      evaluated_description |->
        response.items[Len(response.items) + 1 - j].evaluated_description,
      evaluated_age |-> response.items[Len(response.items) + 1 - j].evaluated_age]]

\* run(): the list comprehension building response_enriched.
ResponseEnriched(video_id, thumbnail_url, response) ==
  [j \in 1..Len(response.items) |->
     [video_id |-> video_id,
      thumbnail_url |-> thumbnail_url,
      datetime_updated |-> response.datetime_updated,
      evaluation_model_id |-> GEMINI_MODEL,
      evaluated_description |-> response.items[j].evaluated_description,
      evaluated_age |-> response.items[j].evaluated_age]]

\* _write_data_to_bq(data): nothing happens for an empty list; otherwise
\* insert_rows_json appends the rows (an insert error is only logged).
WriteDataToBq(table, rows) == IF rows = <<>> THEN table ELSE table \o rows

\* datetime.now(): the clock may have advanced since it was last read.
ClockReadings == now..Min(now + 1, MaxClock)

(***************************************************************************)
(* AGE-EVALUATION DISPATCHER                                               *)
(* src/src/youtube_thumbnails_evaluate_age_dispatcher/main.py              *)
(***************************************************************************)
VARIABLES
  request_json,         \* main(): the JSON payload of the HTTP request
  sheet,                \* the Google Sheet read by _get_config_from_sheet
  source_table,         \* video_id column of the BigQuery source table
  data,                 \* run(): the records of the query result
  messages_to_publish,  \* run(): the batch messages
  publish_futures,      \* _publish_data_as_batch(): one entry per publish()
  dpc,                  \* "idle" | "start" | "publish" | "wait" | "returned" | "raised"
  http_response         \* main(): the flask response, None while running

dispVars == <<request_json, sheet, source_table, data, messages_to_publish,
              publish_futures, dpc, http_response>>

(***************************************************************************)
(* THUMBNAIL DISPATCHER                                                    *)
(* src/src/youtube_thumbnails_dispatch/main.py                             *)
(***************************************************************************)
VARIABLES
  video_ids,          \* run(): the video_id column of the CSV blob
  annotations_table,  \* video_id column of YouTubeThumbnailsWithAnnotations
  temp_table,         \* the temporary table, None before it is loaded
  update_calls,       \* temp_table_from_csv(): client.update_table calls made
  rows,               \* run(): the rows of the query result
  counter,            \* run(): the counter of the dispatch loop
  sent,               \* messages handed to publisher.publish, in order
  tpc                 \* "idle" | "start" | "update" | "retry" | "query" |
                      \* "send" | "done" | "raised"

thumbVars == <<video_ids, annotations_table, temp_table, update_calls, rows,
               counter, sent, tpc>>

(***************************************************************************)
(* THUMBNAIL PROCESSOR                                                     *)
(* src/src/youtube_thumbnails_process/main.py                              *)
(* Every variable but the first five is a function of the invocation: the  *)
(* function may run several times at once.                                 *)
(***************************************************************************)
VARIABLES
  bq_annotations,     \* rows of YouTubeThumbnailsWithAnnotations, in insertion order
  bucket,             \* THUMBNAIL_CROP_BUCKET: the set of blobs
  ytimg,              \* the CDN: file name -> answer to a GET of the thumbnail
  crop_and_store,     \* CROP_AND_STORE_OBJECTS (environment of the deployment)
  clock,              \* the wall clock read by datetime.now()
  event,              \* main(): the decoded JSON message, None when not triggered
  rpc,                \* "idle" | "main" | "run" | "lookup" | "extract" | "write" |
                      \* "save" | "done" | "raised"
  total_rows,         \* run(): rows.total_rows of the gate query, None before it
  probed,             \* the urls requested by _get_best_resolution_thumbnail
  thumbnails,         \* _process_video(): the keys of `thumbnails`, in dict order
  extracted_objects,  \* _process_video(): the dataframes extracted so far
  vision_log,         \* the calls of the vision backend: [url, kind]
  cropout_names,      \* _process_video(): the keys of `cropouts` still to save
  raised_by           \* the exception that left main(), None if none did

\* The invocations of the function that may run at the same time.
Invocations == {1, 2}

tprocVars == <<bq_annotations, bucket, ytimg, crop_and_store, clock, event, rpc,
               total_rows, probed, thumbnails, extracted_objects, vision_log,
               cropout_names, raised_by>>

(***************************************************************************)
(* CROPOUT GENERATOR                                                       *)
(* src/src/youtube_thumbnails_generate_cropouts/main.py                    *)
(* It reads bq_annotations and writes to the bucket.                       *)
(***************************************************************************)
VARIABLES
  bq_cropouts,        \* rows of YouTubeThumbnailCropouts, in insertion order
  crop_event,         \* main(): the decoded JSON message, None when not triggered
  cpc,                \* "idle" | "main" | "run" | "crop" | "save" | "write" |
                      \* "done" | "raised"
  crop_total_rows,    \* run(): rows.total_rows of the gate query, None before it
  source_data,        \* _crop_objects_from_video_thubmnails(): the query result
  cropouts,           \* the list returned by _generate_cropouts_from_dataframe
  saved,              \* how many entries of `cropouts` have been uploaded
  fetched,            \* the requests of _get_image_from_url and their answers
  crop_raised_by      \* the exception that left main(), None if none did

cropVars == <<bq_cropouts, crop_event, cpc, crop_total_rows, source_data,
              cropouts, saved, fetched, crop_raised_by>>

(***************************************************************************)
(* The gate queries of the two dispatchers, evaluated on their own.        *)
(* src/src/youtube_thumbnails_evaluate_age_dispatcher/main.py (run)        *)
(* src/src/youtube_thumbnails_dispatch/main.py (run)                       *)
(***************************************************************************)
VARIABLES
  gate_source,   \* the candidates: the video_id column of the source table
  gate_target,   \* the rows of the target table, in insertion order
  gate_limit,    \* processing_limit of the age-evaluation dispatcher
  gate_log       \* the evaluations so far: [gate, written, ids]

gateVars == <<gate_source, gate_target, gate_limit, gate_log>>

\* main() of the age-evaluation processor: the decoded JSON message, None
\* when run() is entered directly.
VARIABLE batch_message

\* A helper function of the cropout generator called on its own: the
\* arguments of the call and what it returned (None before it returns).
VARIABLES fn_args, fn_result

callVars == <<fn_args, fn_result>>

vars == <<bq_table, procVars, dispVars, thumbVars, tprocVars, cropVars, gateVars,
          batch_message, callVars>>

\* What the actions of one function leave alone.
otherThanProc ==
  <<dispVars, thumbVars, tprocVars, cropVars, gateVars, batch_message, callVars>>
otherThanDisp ==
  <<procVars, thumbVars, tprocVars, cropVars, gateVars, batch_message, callVars>>
otherThanThumb ==
  <<bq_table, procVars, dispVars, tprocVars, cropVars, gateVars, batch_message, callVars>>
otherThanTproc ==
  <<bq_table, procVars, dispVars, thumbVars, cropVars, gateVars, batch_message, callVars>>
otherThanCrop == <<bq_table, procVars, dispVars, thumbVars, ytimg, crop_and_store,
                   event, rpc, total_rows, probed, thumbnails, extracted_objects,
                   vision_log, cropout_names, raised_by, gateVars, batch_message,
                   callVars>>
otherThanGate ==
  <<bq_table, procVars, dispVars, thumbVars, tprocVars, cropVars, batch_message,
    callVars>>

\* No helper function is called on its own (used by the other
\* specifications).
CallIdle == fn_args = None /\ fn_result = None

\* No invocation of the thumbnail processor is running (used by the other
\* specifications).
TprocIdle ==
  /\ ytimg = <<>> /\ crop_and_store = FALSE
  /\ event = [i \in Invocations |-> None]
  /\ rpc = [i \in Invocations |-> "idle"]
  /\ total_rows = [i \in Invocations |-> None]
  /\ probed = [i \in Invocations |-> <<>>]
  /\ thumbnails = [i \in Invocations |-> <<>>]
  /\ extracted_objects = [i \in Invocations |-> <<>>]
  /\ vision_log = [i \in Invocations |-> <<>>]
  /\ cropout_names = [i \in Invocations |-> <<>>]
  /\ raised_by = [i \in Invocations |-> None]

\* The cropout generator is not running (used by the other specifications).
CropIdle ==
  /\ bq_cropouts = <<>> /\ crop_event = None /\ cpc = "idle"
  /\ crop_total_rows = None /\ source_data = <<>> /\ cropouts = <<>>
  /\ saved = 0 /\ fetched = <<>> /\ crop_raised_by = None

\* The annotation table and the bucket are empty (used by the specifications
\* of the functions that do not touch them).
StoresEmpty == bq_annotations = <<>> /\ bucket = {} /\ clock = 0

\* No gate query is evaluated on its own and main() of the age-evaluation
\* processor is not modelled (used by the other specifications).
GateIdle ==
  /\ gate_source = <<>> /\ gate_target = <<>> /\ gate_limit = 0 /\ gate_log = <<>>
  /\ batch_message = None /\ CallIdle

\* The thumbnail dispatcher is not running (used by the other specifications).
ThumbIdle ==
  /\ video_ids = <<>> /\ annotations_table = <<>> /\ temp_table = None
  /\ update_calls = 0 /\ rows = <<>> /\ counter = 0 /\ sent = <<>> /\ tpc = "idle"

\* Batch size of how many videos are sent in one message.
BATCH_SIZE == 5

\* The dispatcher is not running (used by the other specifications).
DispIdle ==
  /\ request_json = [sheet_id |-> [type |-> "string", value |-> "sheet"]]
  /\ sheet = [system_instruction |-> "", prompt |-> "",
              settings |-> [use_gemini_to_evaluate_age |-> "Disabled"]]
  /\ source_table = <<>> /\ data = <<>> /\ messages_to_publish = <<>>
  /\ publish_futures = <<>> /\ dpc = "idle" /\ http_response = None

\* The processor is not running (used by the other specifications).
ProcIdle ==
  /\ videos = <<>> /\ vi = 0 /\ thumbnail_urls = <<>> /\ ti = 0 /\ pc = "idle"
  /\ head = [v \in VideoIds |-> CdnNoThumbnail] /\ now = 0 /\ llm_log = <<>>

\* main() has validated the message and calls run(videos=...).
ProcInit ==
  /\ videos \in SeqsUpTo({[video_id |-> v] : v \in VideoIds}, MaxBatch)
  /\ head \in [VideoIds -> CdnStates]
  /\ vi = 1 /\ thumbnail_urls = <<>> /\ ti = 0 /\ pc = "lookup"
  /\ now = 0 /\ llm_log = <<>>

\* run(): one iteration of `for video in videos` up to the inner loop:
\* _get_thumbnail_urls, and for None the failure row and `continue`.
LookupThumbnails ==
  /\ pc = "lookup" /\ vi <= Len(videos)
  /\ LET video == videos[vi]
         urls == GetThumbnailUrls(head[video.video_id], video.video_id)
     IN  IF urls = None
         THEN \E t \in ClockReadings :
                /\ bq_table' = WriteDataToBq(bq_table, <<NoThumbnailRow(video.video_id, t)>>)
                /\ now' = t
                /\ vi' = vi + 1
                /\ UNCHANGED <<thumbnail_urls, ti, pc>>
         ELSE /\ thumbnail_urls' = urls[1]
              /\ ti' = 1
              /\ pc' = "evaluate"
              /\ UNCHANGED <<bq_table, now, vi>>
  /\ UNCHANGED <<videos, head, llm_log>>
  /\ UNCHANGED otherThanProc

\* run(): one iteration of `for thumbnail_url in thumbnail_urls`.
EvaluateThumbnail ==
  /\ pc = "evaluate" /\ ti <= Len(thumbnail_urls)
  /\ \E outcome \in LLMOutcomes, t \in ClockReadings :
       LET video == videos[vi]
           thumbnail_url == thumbnail_urls[ti]
           response == EvaluateThumbnailAge(thumbnail_url, outcome, t)
           last == ti = Len(thumbnail_urls)
       IN  /\ llm_log' = Append(llm_log, [video_id |-> video.video_id,
                                          thumbnail_url |-> thumbnail_url,
                                          outcome |-> outcome])
           /\ now' = t
           /\ IF response = None
              THEN \* `continue`
                   /\ UNCHANGED bq_table
                   /\ ti' = IF last THEN 0 ELSE ti + 1
                   /\ thumbnail_urls' = IF last THEN <<>> ELSE thumbnail_urls
                   /\ vi' = IF last THEN vi + 1 ELSE vi
                   /\ pc' = IF last THEN "lookup" ELSE "evaluate"
              ELSE IF "items" \notin DOMAIN response[1]
              THEN \* response['items'] raises KeyError, which leaves run()
                   /\ pc' = "raised"
                   /\ UNCHANGED <<bq_table, ti, thumbnail_urls, vi>>
              ELSE /\ bq_table' = WriteDataToBq(bq_table,
                                     ResponseEnriched(video.video_id, thumbnail_url, response[1]))
                   /\ ti' = IF last THEN 0 ELSE ti + 1
                   /\ thumbnail_urls' = IF last THEN <<>> ELSE thumbnail_urls
                   /\ vi' = IF last THEN vi + 1 ELSE vi
                   /\ pc' = IF last THEN "lookup" ELSE "evaluate"
  /\ UNCHANGED <<videos, head>>
  /\ UNCHANGED otherThanProc

\* run(): the outer loop is exhausted, 'All videos processed.' is logged.
AllVideosProcessed ==
  /\ pc = "lookup" /\ vi > Len(videos)
  /\ pc' = "done"
  /\ UNCHANGED <<videos, vi, thumbnail_urls, ti, bq_table, head, now, llm_log>>
  /\ UNCHANGED otherThanProc

ProcNext == LookupThumbnails \/ EvaluateThumbnail \/ AllVideosProcessed

InitProcessor ==
  /\ ProcInit /\ DispIdle /\ ThumbIdle /\ bq_table = <<>>
  /\ TprocIdle /\ CropIdle /\ StoresEmpty /\ GateIdle

SpecProcessor == InitProcessor /\ [][ProcNext]_vars
(***************************************************************************)
(* Age-evaluation dispatcher: main(), run(), _publish_data_as_batch().     *)
(***************************************************************************)
JsonString(v) == [type |-> "string", value |-> v]
JsonNumber(v) == [type |-> "number", value |-> v]

\* jsonschema.validate(request_json, REQUEST_SCHEMA): both properties are
\* required and must be strings.
ValidRequest(req) ==
  /\ {"processing_limit", "sheet_id"} \subseteq DOMAIN req
  /\ req.processing_limit.type = "string"
  /\ req.sheet_id.type = "string"

\* The video ids that have at least one row in a table.
TargetIds(table) == {table[r].video_id : r \in DOMAIN table}

\* SELECT DISTINCT: every value once (here in the order of first occurrence).
RECURSIVE Distinct(_)
Distinct(seq) ==
  IF seq = <<>> THEN <<>>
  ELSE <<Head(seq)>> \o Distinct(SelectSeq(Tail(seq), LAMBDA x : x # Head(seq)))

\* Unprocessed without the NOT EXISTS condition.
Unprocessed_IgnoringTarget(source, table) == Distinct(source)

\* SELECT DISTINCT video_id FROM source st WHERE NOT EXISTS (SELECT 1 FROM
\* target tt WHERE tt.video_id = st.video_id).
Unprocessed(source, table) ==
  Distinct(SelectSeq(source, LAMBDA v : v \notin TargetIds(table)))

Rotate(seq, r) == SubSeq(seq, r + 1, Len(seq)) \o SubSeq(seq, 1, r)
Reverse(seq) == [i \in 1..Len(seq) |-> seq[Len(seq) + 1 - i]]

\* The query has no ORDER BY: BigQuery returns the rows in any order.
RowOrders(seq) ==
  {Rotate(seq, r) : r \in 0..Min(MaxRotation, Len(seq))} \cup {Reverse(seq)}

\* Limit without the LIMIT clause.
Limit_Unlimited(seq, n) == seq

\* LIMIT n.
Limit(seq, n) == SubSeq(seq, 1, Min(n, Len(seq)))

\* client.query(query).to_dataframe(): the results the query may have.
QueryResults(source, table, processing_limit) ==
  {Limit(o, processing_limit) : o \in RowOrders(Unprocessed(source, table))}

\* data[['video_id']].to_dict(orient='records').
ToRecords(ids) == [i \in DOMAIN ids |-> [video_id |-> ids[i]]]

\* BatchMessage numbering the parts from 0.
BatchMessage_ZeroBased(records, config, batch_size, i) ==
  [system_instruction |-> config.system_instruction,
   prompt |-> config.prompt,
   batch_id |-> "placeholder",
   batch_part |-> PyStr(PyIntDiv(i, batch_size)),
   total_batch_parts |-> PyStr(PyCeilDiv(Len(records), batch_size)),
   videos |-> PySlice(records, i, i + batch_size)]

\* run(): the dict appended to messages_to_publish for loop value i.
BatchMessage(records, config, batch_size, i) ==
  [system_instruction |-> config.system_instruction,
   prompt |-> config.prompt,
   batch_id |-> "placeholder",
   batch_part |-> PyStr(PyIntDiv(i, batch_size) + 1),
   total_batch_parts |-> PyStr(PyCeilDiv(Len(records), batch_size)),
   videos |-> PySlice(records, i, i + batch_size)]

\* run(): the loop `for i in range(0, len(data), BATCH_SIZE)`; run() passes
\* BATCH_SIZE as batch_size.
MessagesToPublish(records, config, batch_size) ==
  LET starts == PyRange(0, Len(records), batch_size)
  IN  [k \in DOMAIN starts |-> BatchMessage(records, config, batch_size, starts[k])]

\* The two responses of main().
FailedResponse == [status |-> 400, body |-> [status |-> "Failed"]]
SuccessResponse ==
  [status |-> 200, body |-> [status |-> "Success", message |-> "Message dispatch finished."]]

\* AllCompleted as return_when=FIRST_COMPLETED would have it.
AllCompleted_First(fs) == \E k \in DOMAIN fs : fs[k].state # "pending"

\* futures.wait(publish_futures, return_when=ALL_COMPLETED) may return.
AllCompleted(fs) == \A k \in DOMAIN fs : fs[k].state # "pending"

\* What Pub/Sub has accepted.
Topic == {publish_futures[k].message : k \in {j \in DOMAIN publish_futures :
                                                publish_futures[j].state = "result"}}

VidList(n) == [i \in 1..n |-> Vid(i)]

\* The requests, sheets and tables a dispatch starts from.
Requests ==
  {[processing_limit |-> JsonString(PyStr(n)), sheet_id |-> JsonString("sheet")] :
     n \in {0, 3, 7, 20}}
  \cup {[processing_limit |-> JsonString(<<"1", "x">>), sheet_id |-> JsonString("sheet")],
        [processing_limit |-> JsonNumber(7), sheet_id |-> JsonString("sheet")],
        [sheet_id |-> JsonString("sheet")]}
Sheets ==
  {[system_instruction |-> "You estimate ages.", prompt |-> "How old?",
    settings |-> [use_gemini_to_evaluate_age |-> e]] : e \in {"Enabled", "Disabled"}}
SourceTables ==
  {VidList(n) \o VidList(d) : n \in 0..MaxSource, d \in 0..MaxDup}
TargetTables ==
  {<<>>,
   <<NoThumbnailRow(Vid(2), 0)>>,
   <<NoThumbnailRow(Vid(1), 0), NoThumbnailRow(Vid(1), 1), NoThumbnailRow(Vid(4), 1),
     NoThumbnailRow(Vid(15), 1)>>}

\* An HTTP request arrives.
DispInit ==
  /\ request_json \in Requests
  /\ sheet \in Sheets
  /\ source_table \in SourceTables
  /\ bq_table \in TargetTables
  /\ data = <<>> /\ messages_to_publish = <<>> /\ publish_futures = <<>>
  /\ dpc = "start" /\ http_response = None

\* main(): the payload does not match REQUEST_SCHEMA: status 400.
RejectRequest ==
  /\ dpc = "start" /\ ~ValidRequest(request_json)
  /\ http_response' = Some(FailedResponse)
  /\ dpc' = "returned"
  /\ UNCHANGED <<request_json, sheet, source_table, data, messages_to_publish,
                 publish_futures, bq_table>>
  /\ UNCHANGED otherThanDisp

\* main(): int(request_json['processing_limit']) raises ValueError.
LimitValueError ==
  /\ dpc = "start" /\ ValidRequest(request_json)
  /\ PyInt(request_json.processing_limit.value) = None
  /\ dpc' = "raised"
  /\ UNCHANGED <<request_json, sheet, source_table, data, messages_to_publish,
                 publish_futures, http_response, bq_table>>
  /\ UNCHANGED otherThanDisp

\* run(): age evaluation is not "Enabled" in the sheet: warning and return.
EvaluationDisabled ==
  /\ dpc = "start" /\ ValidRequest(request_json)
  /\ PyInt(request_json.processing_limit.value) # None
  /\ sheet.settings.use_gemini_to_evaluate_age # "Enabled"
  /\ http_response' = Some(SuccessResponse)
  /\ dpc' = "returned"
  /\ UNCHANGED <<request_json, sheet, source_table, data, messages_to_publish,
                 publish_futures, bq_table>>
  /\ UNCHANGED otherThanDisp

\* run(): the query returns no row: 'No thumbnails to process.' and return.
NoThumbnailsToProcess ==
  /\ dpc = "start" /\ ValidRequest(request_json)
  /\ PyInt(request_json.processing_limit.value) # None
  /\ sheet.settings.use_gemini_to_evaluate_age = "Enabled"
  /\ <<>> \in QueryResults(source_table, bq_table,
                           PyInt(request_json.processing_limit.value)[1])
  /\ http_response' = Some(SuccessResponse)
  /\ dpc' = "returned"
  /\ UNCHANGED <<request_json, sheet, source_table, data, messages_to_publish,
                 publish_futures, bq_table>>
  /\ UNCHANGED otherThanDisp

\* run(): the query returns rows; the messages are built and handed to
\* _publish_data_as_batch.
BuildMessages ==
  /\ dpc = "start" /\ ValidRequest(request_json)
  /\ PyInt(request_json.processing_limit.value) # None
  /\ sheet.settings.use_gemini_to_evaluate_age = "Enabled"
  /\ \E ids \in QueryResults(source_table, bq_table,
                             PyInt(request_json.processing_limit.value)[1]) :
       /\ ids # <<>>
       /\ data' = ToRecords(ids)
       /\ messages_to_publish' = MessagesToPublish(ToRecords(ids), sheet, BATCH_SIZE)
  /\ dpc' = "publish"
  /\ UNCHANGED <<request_json, sheet, source_table, publish_futures, http_response,
                 bq_table>>
  /\ UNCHANGED otherThanDisp

\* _publish_data_as_batch(): one iteration of the loop: publisher.publish(),
\* add_done_callback(), publish_futures.append(); after the last one the
\* function is in futures.wait().
PublishNext ==
  /\ dpc = "publish" /\ Len(publish_futures) < Len(messages_to_publish)
  /\ LET current == Len(publish_futures)
     IN  /\ publish_futures' = Append(publish_futures,
                                 [message |-> messages_to_publish[current + 1],
                                  current |-> current + 1,
                                  total |-> Len(messages_to_publish),
                                  state |-> "pending",
                                  logged |-> "nothing"])
         /\ dpc' = IF current + 1 = Len(messages_to_publish) THEN "wait" ELSE "publish"
  /\ UNCHANGED <<request_json, sheet, source_table, data, messages_to_publish,
                 http_response, bq_table>>
  /\ UNCHANGED otherThanDisp

\* Pub/Sub completes a publish, with a message id or with an exception.
CompletePublish ==
  /\ \E k \in DOMAIN publish_futures, outcome \in {"result", "exception"} :
       /\ publish_futures[k].state = "pending"
       /\ publish_futures' = [publish_futures EXCEPT ![k].state = outcome]
  /\ UNCHANGED <<request_json, sheet, source_table, data, messages_to_publish,
                 dpc, http_response, bq_table>>
  /\ UNCHANGED otherThanDisp

\* callback(): runs once for a completed future and logs what happened.
Callback ==
  /\ \E k \in DOMAIN publish_futures :
       /\ publish_futures[k].state # "pending"
       /\ publish_futures[k].logged = "nothing"
       /\ publish_futures' =
            [publish_futures EXCEPT ![k].logged =
               IF publish_futures[k].state = "exception"
               THEN "Failed to publish" ELSE "Message published"]
  /\ UNCHANGED <<request_json, sheet, source_table, data, messages_to_publish,
                 dpc, http_response, bq_table>>
  /\ UNCHANGED otherThanDisp

\* WaitAllCompleted collecting future.result(), which re-raises a publish
\* exception out of run().
WaitAllCompleted_Result ==
  /\ dpc = "wait" /\ AllCompleted(publish_futures)
  /\ IF \E k \in DOMAIN publish_futures : publish_futures[k].state = "exception"
     THEN dpc' = "raised" /\ UNCHANGED http_response
     ELSE dpc' = "returned" /\ http_response' = Some(SuccessResponse)
  /\ UNCHANGED <<request_json, sheet, source_table, data, messages_to_publish,
                 publish_futures, bq_table>>
  /\ UNCHANGED otherThanDisp

\* _publish_data_as_batch(): futures.wait() returns, then run() and main().
WaitAllCompleted ==
  /\ dpc = "wait" /\ AllCompleted(publish_futures)
  /\ http_response' = Some(SuccessResponse)
  /\ dpc' = "returned"
  /\ UNCHANGED <<request_json, sheet, source_table, data, messages_to_publish,
                 publish_futures, bq_table>>
  /\ UNCHANGED otherThanDisp

DispNext ==
  \/ RejectRequest
  \/ LimitValueError
  \/ EvaluationDisabled
  \/ NoThumbnailsToProcess
  \/ BuildMessages
  \/ PublishNext
  \/ CompletePublish
  \/ Callback
  \/ WaitAllCompleted

InitDispatcher ==
  DispInit /\ ProcIdle /\ ThumbIdle /\ TprocIdle /\ CropIdle /\ StoresEmpty /\ GateIdle

SpecDispatcher == InitDispatcher /\ [][DispNext]_vars

(***************************************************************************)
(* Thumbnail dispatcher: run(), temp_table_from_csv(),                     *)
(* _send_video_for_processing().                                           *)
(***************************************************************************)
\* NotIn with IN in the place of NOT IN.
NotIn_In(temp, table) == SelectSeq(temp, LAMBDA v : v \in TargetIds(table))

\* SELECT video_id FROM temp WHERE video_id NOT IN (SELECT video_id FROM
\* YouTubeThumbnailsWithAnnotations): the rows of temp that pass.
NotIn(temp, table) == SelectSeq(temp, LAMBDA v : v \notin TargetIds(table))

\* The CSV blobs and annotation tables a dispatch starts from.
CsvColumns == SeqsUpTo({Vid(1), Vid(2)}, MaxCsv)
AnnotationTables ==
  {<<>>,
   <<[video_id |-> Vid(1)]>>,
   <<[video_id |-> Vid(2)], [video_id |-> Vid(2)]>>}

\* main() has validated the message and calls run(blob_name); pd.read_csv
\* has read the blob.
ThumbInit ==
  /\ video_ids \in CsvColumns
  /\ annotations_table \in AnnotationTables
  /\ temp_table = None /\ update_calls = 0 /\ rows = <<>> /\ counter = 0
  /\ sent = <<>> /\ tpc = "start"

\* temp_table_from_csv(): load_table_from_dataframe with WRITE_TRUNCATE and
\* job.result().
LoadTempTable ==
  /\ tpc = "start"
  /\ temp_table' = Some(video_ids)
  /\ tpc' = "update"
  /\ UNCHANGED <<video_ids, annotations_table, update_calls, rows, counter, sent>>
  /\ UNCHANGED otherThanThumb

\* temp_table_from_csv(): the `try` block: update_table succeeds or raises
\* PreconditionFailed.
UpdateExpires ==
  /\ tpc = "update"
  /\ update_calls' = update_calls + 1
  /\ \E precondition_failed \in BOOLEAN :
       tpc' = IF precondition_failed THEN "retry" ELSE "query"
  /\ UNCHANGED <<video_ids, annotations_table, temp_table, rows, counter, sent>>
  /\ UNCHANGED otherThanThumb

\* RetryUpdateExpires as a retry loop: a rejected retry is retried again.
RetryUpdateExpires_RetriesAgain ==
  /\ tpc = "retry"
  /\ update_calls' = update_calls + 1
  /\ \E precondition_failed \in BOOLEAN :
       tpc' = IF precondition_failed THEN "retry" ELSE "query"
  /\ UNCHANGED <<video_ids, annotations_table, temp_table, rows, counter, sent>>
  /\ UNCHANGED otherThanThumb

\* temp_table_from_csv(): the `except` block: sleep, then update_table once
\* more; this time an exception leaves the function.
RetryUpdateExpires ==
  /\ tpc = "retry"
  /\ update_calls' = update_calls + 1
  /\ \E precondition_failed \in BOOLEAN :
       tpc' = IF precondition_failed THEN "raised" ELSE "query"
  /\ UNCHANGED <<video_ids, annotations_table, temp_table, rows, counter, sent>>
  /\ UNCHANGED otherThanThumb

\* run(): the gate query and the test of rows.total_rows.
QueryNewVideos ==
  /\ tpc = "query"
  /\ \E result \in RowOrders(NotIn(temp_table[1], annotations_table)) :
       /\ rows' = result
       /\ counter' = IF Len(result) > 0 THEN 1 ELSE counter
       /\ tpc' = IF Len(result) > 0 THEN "send" ELSE "done"
  /\ UNCHANGED <<video_ids, annotations_table, temp_table, update_calls, sent>>
  /\ UNCHANGED otherThanThumb

\* run(): one iteration of `for row in rows`: _send_video_for_processing
\* publishes {'video_id': row.video_id}.
SendVideoForProcessing ==
  /\ tpc = "send" /\ counter <= Len(rows)
  /\ sent' = Append(sent, [video_id |-> rows[counter]])
  /\ counter' = counter + 1
  /\ tpc' = IF counter = Len(rows) THEN "done" ELSE "send"
  /\ UNCHANGED <<video_ids, annotations_table, temp_table, update_calls, rows>>
  /\ UNCHANGED otherThanThumb

ThumbNext ==
  \/ LoadTempTable
  \/ UpdateExpires
  \/ RetryUpdateExpires
  \/ QueryNewVideos
  \/ SendVideoForProcessing

InitThumbnailDispatcher ==
  /\ ThumbInit /\ ProcIdle /\ DispIdle /\ bq_table = <<>>
  /\ TprocIdle /\ CropIdle /\ StoresEmpty /\ GateIdle

SpecThumbnailDispatcher == InitThumbnailDispatcher /\ [][ThumbNext]_vars

(***************************************************************************)
(* Thumbnail processor: main(), run(), _process_video() and what they      *)
(* call.  Coordinates and confidences are fixed-point numbers counted in   *)
(* thousandths (0.1 is 100).                                               *)
(***************************************************************************)
OBJECTS_TO_CROP_AND_STORE == <<"Face", "Person">>
CHARS_TO_REPLACE_IN_IMAGE_NAME == <<":", "/", ".", "?", "#", "&", "=", "+">>
THUMBNAIL_SET_DEFAULT ==
  <<"maxresdefault", "hq720", "sddefault", "hqdefault", "0", "mqdefault", "default">>
THUMBNAIL_SET_1 == <<"sd1", "hq1", "mq1", "1">>
THUMBNAIL_SET_2 == <<"sd2", "hq2", "mq2", "2">>
THUMBNAIL_SET_3 == <<"sd3", "hq3", "mq3", "3">>

\* THUMBNAIL_URL.format(video_id=..., thumbnail_name=...)
THUMBNAIL_URL(video_id, thumbnail_name) ==
  "https://i.ytimg.com/vi/" \o video_id \o "/" \o thumbnail_name \o ".jpg"

\* The operands of the `|` expression of _process_video, in order.
ThumbnailSets ==
  <<THUMBNAIL_SET_DEFAULT, THUMBNAIL_SET_1, THUMBNAIL_SET_2, THUMBNAIL_SET_3>>

ThumbnailNames == UNION {Range(ThumbnailSets[k]) : k \in DOMAIN ThumbnailSets}

\* jsonschema.validate(message_json, MESSAGE_SCHEMA): an object whose
\* required property video_id is a string.
ValidMessage(message_json) ==
  /\ "video_id" \in DOMAIN message_json
  /\ message_json.video_id.type = "string"

\* rows.total_rows of SELECT video_id FROM <table> WHERE video_id = '<id>'.
TotalRows(table, video_id) ==
  Cardinality({r \in DOMAIN table : table[r].video_id = video_id})

\* AlreadyProcessed asking for more than one row.
AlreadyProcessed_MoreThanOne(n) == n > 1

\* run(): the test `rows.total_rows > 0` of the gate.
AlreadyProcessed(n) == n > 0

\* What requests.get(url) does when the CDN answers `answer`: it raises, or
\* returns a response with a status code.
GetRaises(answer) == answer \in {"Timeout", "RequestException"}
StatusCode(answer) == IF answer \in {"200 image/jpeg", "200 text/html"} THEN 200
                      ELSE IF answer = "404" THEN 404 ELSE 503

\* _get_best_resolution_thumbnail(file_names, video_id) from position k of
\* file_names on: the urls requested, the exception that left the function
\* (None if it returned) and the keys of the dict it returned.  Both GETs of
\* one url get the same answer; PIL.Image.open raises UnidentifiedImageError
\* for a body that is not an image.
RECURSIVE GetBestResolutionThumbnailFrom(_, _, _, _)
GetBestResolutionThumbnailFrom(cdn, file_names, video_id, k) ==
  IF k > Len(file_names)
  THEN [probed |-> <<>>, exception |-> None, thumbnails |-> <<>>]
  ELSE LET url == THUMBNAIL_URL(video_id, file_names[k])
           answer == cdn[file_names[k]]
       IN  IF GetRaises(answer)
           THEN [probed |-> <<url>>, exception |-> Some(answer), thumbnails |-> <<>>]
           ELSE IF StatusCode(answer) = 200
           THEN IF answer = "200 image/jpeg"
                THEN [probed |-> <<url>>, exception |-> None, thumbnails |-> <<url>>]
                ELSE [probed |-> <<url>>, exception |-> Some("UnidentifiedImageError"),
                      thumbnails |-> <<>>]
           ELSE LET rest == GetBestResolutionThumbnailFrom(cdn, file_names, video_id, k + 1)
                IN  [rest EXCEPT !.probed = <<url>> \o @]

\* GetBestResolutionThumbnail going on after a hit.
GetBestResolutionThumbnail_NoReturn(cdn, file_names, video_id) ==
  LET RECURSIVE All(_)
      All(k) == IF k > Len(file_names) THEN <<>>
                ELSE <<THUMBNAIL_URL(video_id, file_names[k])>> \o All(k + 1)
      hits == SelectSeq(All(1), LAMBDA u : \E k \in DOMAIN file_names :
                  u = THUMBNAIL_URL(video_id, file_names[k]) /\ cdn[file_names[k]] = "200 image/jpeg")
  IN  [probed |-> All(1), exception |-> None,
       thumbnails |-> IF hits = <<>> THEN <<>> ELSE <<hits[Len(hits)]>>]

GetBestResolutionThumbnail(cdn, file_names, video_id) ==
  GetBestResolutionThumbnailFrom(cdn, file_names, video_id, 1)

\* _process_video(): the `|` expression from its k-th operand on.  An
\* exception in one operand leaves the expression.
RECURSIVE LookUpThumbnails(_, _, _)
LookUpThumbnails(cdn, video_id, k) ==
  IF k > Len(ThumbnailSets)
  THEN [probed |-> <<>>, exception |-> None, thumbnails |-> <<>>]
  ELSE LET first == GetBestResolutionThumbnail(cdn, ThumbnailSets[k], video_id)
       IN  IF first.exception # None THEN first
           ELSE LET rest == LookUpThumbnails(cdn, video_id, k + 1)
                IN  [probed |-> first.probed \o rest.probed,
                     exception |-> rest.exception,
                     thumbnails |-> IF rest.exception # None THEN <<>>
                                    ELSE first.thumbnails \o rest.thumbnails]

\* The size of the images the CDN serves.
ThumbnailSize == [width |-> 1000, height |-> 500]

\* What the vision backend finds in a thumbnail.
Vertex(x, y) == [x |-> x, y |-> y]
PersonObject ==
  [name |-> "Person", score |-> 984,
   normalized_vertices |-> <<Vertex(200, 100), Vertex(800, 100),
                             Vertex(800, 900), Vertex(200, 900)>>]
CarObject ==
  [name |-> "Car", score |-> 910,
   normalized_vertices |-> <<Vertex(0, 500), Vertex(400, 500),
                             Vertex(400, 1000), Vertex(0, 1000)>>]
FaceAnnotation ==
  [detection_confidence |-> 996,
   vertices |-> <<Vertex(100, 50), Vertex(300, 50), Vertex(300, 250), Vertex(100, 250)>>]

\* What the two calls of the vision backend for one thumbnail can do: one of
\* them raises, or both return.
VisionOutcomes ==
  {[kind |-> "GoogleAPICallError"],
   [kind |-> "ok", objects |-> <<>>, faces |-> <<>>],
   [kind |-> "ok", objects |-> <<CarObject>>, faces |-> <<FaceAnnotation>>]}

\* _parse_vision_object_annotations(vision_object) at instant t.
ParseVisionObjectAnnotations(vision_object, t) ==
  [label |-> vision_object.name,
   confidence |-> vision_object.score,
   top_left_x |-> vision_object.normalized_vertices[1].x,
   top_left_y |-> vision_object.normalized_vertices[1].y,
   bottom_right_x |-> vision_object.normalized_vertices[3].x,
   bottom_right_y |-> vision_object.normalized_vertices[3].y,
   datetime_updated |-> t]

\* _parse_face_annotations(vision_object) at instant t: absolute vertices.
ParseFaceAnnotations(vision_object, t) ==
  [label |-> "Face",
   confidence |-> vision_object.detection_confidence,
   top_left_x |-> vision_object.vertices[1].x,
   top_left_y |-> vision_object.vertices[1].y,
   bottom_right_x |-> vision_object.vertices[3].x,
   bottom_right_y |-> vision_object.vertices[3].y,
   datetime_updated |-> t]

\* _face_annotations_from_image(): the parsed faces with their coordinates
\* divided by the width and the height of the image.
FaceAnnotationsFromImage(faces, size, t) ==
  [j \in DOMAIN faces |->
     LET parsed == ParseFaceAnnotations(faces[j], t)
     IN  [parsed EXCEPT !.top_left_x = (@ * 1000) \div size.width,
                        !.top_left_y = (@ * 1000) \div size.height,
                        !.bottom_right_x = (@ * 1000) \div size.width,
                        !.bottom_right_y = (@ * 1000) \div size.height]]

\* _localized_object_annotations_from_image()
LocalizedObjectAnnotationsFromImage(objects, t) ==
  [j \in DOMAIN objects |-> ParseVisionObjectAnnotations(objects[j], t)]

\* _extract_objects_df_from_thumbnail(): objects, extended by the faces.
ExtractObjectsDfFromThumbnail(outcome, size, t) ==
  LocalizedObjectAnnotationsFromImage(outcome.objects, t)
    \o FaceAnnotationsFromImage(outcome.faces, size, t)

\* thumbnail_data.insert(0, 'thumbnail_url', url) and
\* thumbnail_data.insert(0, 'video_id', video_id)
InsertColumns(thumbnail_data, video_id, url) ==
  [j \in DOMAIN thumbnail_data |->
     SetItem(SetItem(thumbnail_data[j], "thumbnail_url", url), "video_id", video_id)]

\* pd.concat(frames, ignore_index=True) of a list that is not empty.
RECURSIVE Concat(_)
Concat(frames) == IF frames = <<>> THEN <<>> ELSE Head(frames) \o Concat(Tail(frames))

\* WriteResultsToBq loading the records with WRITE_TRUNCATE.
WriteResultsToBq_Truncate(table, records) == IF records = <<>> THEN table ELSE records

\* _write_results_to_bq(data, table_id): nothing happens for an empty
\* dataframe; otherwise insert_rows_json appends the records (an insert error
\* is only logged).
WriteResultsToBq(table, records) == IF records = <<>> THEN table ELSE table \o records

\* str.replace(old, new): the occurrences of `old` from left to right.
RECURSIVE StrReplace(_, _, _)
StrReplace(s, old, new) ==
  IF Len(s) < Len(old) THEN s
  ELSE IF SubSeq(s, 1, Len(old)) = old
       THEN new \o StrReplace(SubSeq(s, Len(old) + 1, Len(s)), old, new)
       ELSE SubSeq(s, 1, 1) \o StrReplace(SubSeq(s, 2, Len(s)), old, new)

\* _generate_thumbnail_name(): the loop over CHARS_TO_REPLACE_IN_IMAGE_NAME
\* from position k on, then the two replacements of repeated underscores.
RECURSIVE ReplaceChars(_, _)
ReplaceChars(s, k) ==
  IF k > Len(CHARS_TO_REPLACE_IN_IMAGE_NAME) THEN s
  ELSE ReplaceChars(StrReplace(s, CHARS_TO_REPLACE_IN_IMAGE_NAME[k], "_"), k + 1)
\* SanitizedUrl leaving the repeated underscores in.
SanitizedUrl_NoCollapse(video_url) == ReplaceChars(video_url, 1)
SanitizedUrl(video_url) ==
  StrReplace(StrReplace(ReplaceChars(video_url, 1), "___", "_"), "__", "_")

\* str(uuid.uuid4()): the values the model draws from.
Uuid4s == {"123e4567-e89b-42d3-a456-426614c0ffee",
           "0f8fad5b-d9cb-469f-a165-70867728950e"}

\* _generate_thumbnail_name(video_id, video_url, label) of the thumbnail
\* processor, with uuid the value of str(uuid.uuid4()).
ProcessGenerateThumbnailName(video_id, video_url, label, uuid) ==
  video_id \o "/" \o label \o "-" \o SubSeq(uuid, Len(uuid) - 5, Len(uuid))
    \o "-" \o SanitizedUrl(video_url) \o ".png"

\* Insertion of a key into the key list of a dict.
DictInsert(keys, key) == IF key \in Range(keys) THEN keys ELSE Append(keys, key)

\* _process_video(): the keys of `cropouts`: one name for each filtered row,
\* thumbnail by thumbnail; uuids[j] is the uuid drawn for the j-th row.
RECURSIVE CropoutNames(_, _, _)
CropoutNames(filtered_objects, uuids, j) ==
  IF j = 0 THEN <<>>
  ELSE DictInsert(CropoutNames(filtered_objects, uuids, j - 1),
                  ProcessGenerateThumbnailName(filtered_objects[j].video_id,
                                               filtered_objects[j].thumbnail_url,
                                               filtered_objects[j].label, uuids[j]))

\* image_blob.upload_from_string(..., content_type='image/jpeg')
Blob(name) == [name |-> name, content_type |-> "image/jpeg"]

\* datetime.now(): the clock may have advanced since it was last read.
WallClockReadings == clock..Min(clock + 1, MaxClock)

\* The messages, CDN states and annotation tables an invocation starts from.
TprocMessages ==
  {[video_id |-> JsonString(v)] : v \in VideoIds}
  \cup {[video_id |-> JsonNumber(7)], [id |-> JsonString(Vid(1))]}
TprocEvents ==
  {[i \in Invocations |-> IF i = 1 THEN m ELSE n] :
     m \in TprocMessages, n \in {None, [video_id |-> JsonString(Vid(1))]}}
\* The CDN states: no thumbnail; only the third name of the first tier; two
\* tiers and a 503; a network error in the second tier; a 200 answer that is
\* not an image.
YtimgStates ==
  {[f \in ThumbnailNames |-> "404"],
   [f \in ThumbnailNames |-> IF f = "sddefault" THEN "200 image/jpeg" ELSE "404"],
   [f \in ThumbnailNames |->
      IF f \in {"maxresdefault", "hq720", "mq2"} THEN "200 image/jpeg"
      ELSE IF f = "sd1" THEN "503"
      ELSE "404"],
   [f \in ThumbnailNames |->
      IF f = "hqdefault" THEN "200 image/jpeg"
      ELSE IF f = "hq1" THEN "RequestException"
      ELSE "404"],
   [f \in ThumbnailNames |->
      IF f = "hq720" THEN "200 text/html"
      ELSE IF f = "sddefault" THEN "200 image/jpeg"
      ELSE "404"]}

\* The rows an earlier invocation wrote for a video at instant 0.
AnnotationsOf(video_id) ==
  InsertColumns(ExtractObjectsDfFromThumbnail(
                  [kind |-> "ok", objects |-> <<PersonObject, CarObject>>,
                   faces |-> <<FaceAnnotation>>], ThumbnailSize, 0),
                video_id, THUMBNAIL_URL(video_id, "hqdefault"))
CarOf(video_id) ==
  InsertColumns(ExtractObjectsDfFromThumbnail(
                  [kind |-> "ok", objects |-> <<CarObject>>, faces |-> <<>>],
                  ThumbnailSize, 1),
                video_id, THUMBNAIL_URL(video_id, "sd1"))
AnnotatedTables == {<<>>, AnnotationsOf(Vid(1)), CarOf(Vid(2))}

\* Pub/Sub has triggered main() for the first invocation with any message
\* and may have triggered it once more for the first video.
TprocInit ==
  /\ bq_annotations \in AnnotatedTables
  /\ bucket = {}
  /\ ytimg \in YtimgStates
  /\ crop_and_store \in BOOLEAN
  /\ clock = 0
  /\ event \in TprocEvents
  /\ rpc = [i \in Invocations |-> IF event[i] = None THEN "idle" ELSE "main"]
  /\ total_rows = [i \in Invocations |-> None]
  /\ probed = [i \in Invocations |-> <<>>]
  /\ thumbnails = [i \in Invocations |-> <<>>]
  /\ extracted_objects = [i \in Invocations |-> <<>>]
  /\ vision_log = [i \in Invocations |-> <<>>]
  /\ cropout_names = [i \in Invocations |-> <<>>]
  /\ raised_by = [i \in Invocations |-> None]

\* An exception leaves main().
Raise(i, exception) ==
  /\ rpc' = [rpc EXCEPT ![i] = "raised"]
  /\ raised_by' = [raised_by EXCEPT ![i] = Some(exception)]

\* main(): the message is validated; run(video_id) is called if it is valid.
Main(i) ==
  /\ rpc[i] = "main"
  /\ IF ValidMessage(event[i])
     THEN rpc' = [rpc EXCEPT ![i] = "run"] /\ UNCHANGED raised_by
     ELSE Raise(i, "ValidationError")
  /\ UNCHANGED <<bq_annotations, bucket, ytimg, crop_and_store, clock, event,
                 total_rows, probed, thumbnails, extracted_objects, vision_log,
                 cropout_names>>
  /\ UNCHANGED otherThanTproc

\* run(): the gate query and the test of rows.total_rows.
Run(i) ==
  /\ rpc[i] = "run"
  /\ LET n == TotalRows(bq_annotations, event[i].video_id.value)
     IN  /\ total_rows' = [total_rows EXCEPT ![i] = Some(n)]
         /\ rpc' = [rpc EXCEPT ![i] = IF AlreadyProcessed(n) THEN "done" ELSE "lookup"]
  /\ UNCHANGED <<bq_annotations, bucket, ytimg, crop_and_store, clock, event,
                 probed, thumbnails, extracted_objects, vision_log,
                 cropout_names, raised_by>>
  /\ UNCHANGED otherThanTproc

\* _process_video(): the four calls of _get_best_resolution_thumbnail.
ProcessVideo(i) ==
  /\ rpc[i] = "lookup"
  /\ LET found == LookUpThumbnails(ytimg, event[i].video_id.value, 1)
     IN  /\ probed' = [probed EXCEPT ![i] = found.probed]
         /\ thumbnails' = [thumbnails EXCEPT ![i] = found.thumbnails]
         /\ IF found.exception # None
            THEN Raise(i, found.exception[1])
            ELSE rpc' = [rpc EXCEPT ![i] = "extract"] /\ UNCHANGED raised_by
  /\ UNCHANGED <<bq_annotations, bucket, ytimg, crop_and_store, clock, event,
                 total_rows, extracted_objects, vision_log, cropout_names>>
  /\ UNCHANGED otherThanTproc

\* _process_video(): one iteration of `for url in thumbnails.keys()`.  An
\* exception of the vision backend is not caught.  The invocation is over
\* before the clock (of one second resolution) moves on.
ExtractObjects(i) ==
  /\ rpc[i] = "extract"
  /\ Len(extracted_objects[i]) < Len(thumbnails[i])
  /\ \E outcome \in VisionOutcomes :
       LET url == thumbnails[i][Len(extracted_objects[i]) + 1]
           video_id == event[i].video_id.value
           t == clock
       IN  /\ vision_log' = [vision_log EXCEPT ![i] =
                               Append(@, [thumbnail_url |-> url, kind |-> outcome.kind])]
           /\ IF outcome.kind = "ok"
              THEN /\ extracted_objects' =
                        [extracted_objects EXCEPT ![i] =
                           Append(@, InsertColumns(
                                       ExtractObjectsDfFromThumbnail(outcome, ThumbnailSize, t),
                                       video_id, url))]
                   /\ UNCHANGED <<rpc, raised_by>>
              ELSE Raise(i, outcome.kind) /\ UNCHANGED extracted_objects
  /\ UNCHANGED <<bq_annotations, bucket, ytimg, crop_and_store, clock, event,
                 total_rows, probed, thumbnails, cropout_names>>
  /\ UNCHANGED otherThanTproc

\* _process_video() after the loop: pd.concat (ValueError for an empty
\* list), _write_results_to_bq and, if CROP_AND_STORE_OBJECTS, the filter on
\* the label column (KeyError if no dataframe has it) and the cropouts.
WriteResults(i) ==
  /\ rpc[i] = "extract"
  /\ Len(extracted_objects[i]) = Len(thumbnails[i])
  /\ IF extracted_objects[i] = <<>>
     THEN Raise(i, "ValueError") /\ UNCHANGED <<bq_annotations, cropout_names>>
     ELSE LET all_extracted_objects == Concat(extracted_objects[i])
              filtered_objects ==
                SelectSeq(all_extracted_objects,
                          LAMBDA row : row.label \in Range(OBJECTS_TO_CROP_AND_STORE))
          IN  /\ bq_annotations' = WriteResultsToBq(bq_annotations, all_extracted_objects)
              /\ IF ~crop_and_store
                 THEN /\ rpc' = [rpc EXCEPT ![i] = "done"]
                      /\ UNCHANGED <<cropout_names, raised_by>>
                 ELSE IF all_extracted_objects = <<>>
                 THEN Raise(i, "KeyError") /\ UNCHANGED cropout_names
                 ELSE \E uuids \in [DOMAIN filtered_objects -> Uuid4s] :
                        LET names == CropoutNames(filtered_objects, uuids,
                                                  Len(filtered_objects))
                        IN  /\ cropout_names' = [cropout_names EXCEPT ![i] = names]
                            /\ rpc' = [rpc EXCEPT ![i] =
                                         IF names = <<>> THEN "done" ELSE "save"]
                            /\ UNCHANGED raised_by
  /\ UNCHANGED <<bucket, ytimg, crop_and_store, clock, event, total_rows, probed,
                 thumbnails, extracted_objects, vision_log>>
  /\ UNCHANGED otherThanTproc

\* _process_video(): one iteration of `for image_name in cropouts.keys()`:
\* _save_image_to_gcs uploads the blob, or the upload raises.
SaveImageToGcs(i) ==
  /\ rpc[i] = "save"
  /\ \E uploaded \in BOOLEAN :
       IF uploaded
       THEN /\ bucket' = bucket \cup {Blob(Head(cropout_names[i]))}
            /\ cropout_names' = [cropout_names EXCEPT ![i] = Tail(@)]
            /\ rpc' = [rpc EXCEPT ![i] =
                         IF Tail(cropout_names[i]) = <<>> THEN "done" ELSE "save"]
            /\ UNCHANGED raised_by
       ELSE Raise(i, "GoogleCloudError") /\ UNCHANGED <<bucket, cropout_names>>
  /\ UNCHANGED <<bq_annotations, ytimg, crop_and_store, clock, event, total_rows,
                 probed, thumbnails, extracted_objects, vision_log>>
  /\ UNCHANGED otherThanTproc

TprocNext ==
  \E i \in Invocations :
    \/ Main(i)
    \/ Run(i)
    \/ ProcessVideo(i)
    \/ ExtractObjects(i)
    \/ WriteResults(i)
    \/ SaveImageToGcs(i)

(***************************************************************************)
(* Cropout generator: main(), run(), _crop_objects_from_video_thubmnails() *)
(* and what they call.                                                     *)
(***************************************************************************)
THUMBNAIL_CROP_BUCKET == "cropouts"

\* jsonschema.validate(message_json, MESSAGE_SCHEMA) of the cropout
\* generator: an object whose required property video_id is a string.
ValidCropoutMessage(message_json) ==
  /\ "video_id" \in DOMAIN message_json
  /\ message_json.video_id.type = "string"

\* The characters of the urls in the order of their code points: the order
\* Python compares the characters of a str in.
Ascii == "#&+-./0123456789:=?ABCDEFGHIJKLMNOPQRSTUVWXYZ_abcdefghijklmnopqrstuvwxyz"
Ord(c) == CHOOSE k \in 1..Len(Ascii) : SubSeq(Ascii, k, k) = c

\* a < b for two Python str.
RECURSIVE StrLess(_, _)
StrLess(a, b) ==
  IF Len(b) = 0 THEN FALSE
  ELSE IF Len(a) = 0 THEN TRUE
  ELSE IF SubSeq(a, 1, 1) = SubSeq(b, 1, 1)
       THEN StrLess(SubSeq(a, 2, Len(a)), SubSeq(b, 2, Len(b)))
       ELSE Ord(SubSeq(a, 1, 1)) < Ord(SubSeq(b, 1, 1))

\* cropout_data.sort_values(by='thumbnail_url'): the rows in ascending
\* order of thumbnail_url; rows with the same url keep their order.
RECURSIVE SortValues(_)
SortValues(frame) ==
  IF frame = <<>> THEN <<>>
  ELSE LET sorted == SortValues(SubSeq(frame, 1, Len(frame) - 1))
           row == frame[Len(frame)]
           before == SelectSeq(sorted, LAMBDA r : ~StrLess(row.thumbnail_url, r.thumbnail_url))
           after == SelectSeq(sorted, LAMBDA r : StrLess(row.thumbnail_url, r.thumbnail_url))
       IN  before \o <<row>> \o after

\* The query of _crop_objects_from_video_thubmnails: SELECT * FROM
\* YouTubeThumbnailsWithAnnotations WHERE video_id = '<id>' AND label IN
\* ('Face','Person').
SourceData(table, video_id) ==
  SelectSeq(table, LAMBDA row : /\ row.video_id = video_id
                                /\ row.label \in Range(OBJECTS_TO_CROP_AND_STORE))

\* _get_image_from_url(url) when the CDN answers `answer`: None for a status
\* that is not 200, the image otherwise.
GetImageFromUrl(url, answer) ==
  IF StatusCode(answer) # 200 THEN None
  ELSE Some([url |-> url, width |-> ThumbnailSize.width, height |-> ThumbnailSize.height])

\* image.crop(box)
Crop(image, box) == [image |-> image, box |-> box]

\* CropoutFromImage testing the sentinel after the relative coordinates.
CropoutFromImage_SentinelLast(image, top_left_x, top_left_y, bottom_right_x, bottom_right_y) ==
  IF /\ top_left_x <= 1000 /\ top_left_y <= 1000
     /\ bottom_right_x <= 1000 /\ bottom_right_y <= 1000
  THEN Crop(image, <<top_left_x * image.width, top_left_y * image.height,
                     bottom_right_x * image.width, bottom_right_y * image.height>>)
  ELSE IF bottom_right_x = 0 /\ bottom_right_y = 0 THEN image
  ELSE Crop(image, <<top_left_x, top_left_y, bottom_right_x, bottom_right_y>>)

\* CropoutFromImage taking a coordinate of exactly 1 as absolute.
CropoutFromImage_LessThanOne(image, top_left_x, top_left_y, bottom_right_x, bottom_right_y) ==
  IF bottom_right_x = 0 /\ bottom_right_y = 0 THEN image
  ELSE IF /\ top_left_x < 1000 /\ top_left_y < 1000
          /\ bottom_right_x < 1000 /\ bottom_right_y < 1000
       THEN Crop(image, <<top_left_x * image.width, top_left_y * image.height,
                          bottom_right_x * image.width, bottom_right_y * image.height>>)
       ELSE Crop(image, <<top_left_x, top_left_y, bottom_right_x, bottom_right_y>>)

\* _cropout_from_image() of the cropout generator.  The products are counted
\* in thousandths of a pixel.
CropoutFromImage(image, top_left_x, top_left_y, bottom_right_x, bottom_right_y) ==
  IF bottom_right_x = 0 /\ bottom_right_y = 0 THEN image
  ELSE IF /\ top_left_x <= 1000 /\ top_left_y <= 1000
          /\ bottom_right_x <= 1000 /\ bottom_right_y <= 1000
       THEN Crop(image, <<top_left_x * image.width, top_left_y * image.height,
                          bottom_right_x * image.width, bottom_right_y * image.height>>)
       ELSE Crop(image, <<top_left_x, top_left_y, bottom_right_x, bottom_right_y>>)

\* _generate_thumbnail_name(video_url, label) of the cropout generator, with
\* uuid the value of str(uuid.uuid4()).
GenerateThumbnailName(video_url, label, uuid) ==
  label \o "-" \o SubSeq(uuid, Len(uuid) - 5, Len(uuid)) \o "-" \o SanitizedUrl(video_url)

\* '/'.join(['gs:/', THUMBNAIL_CROP_BUCKET, video_id, file_name]) and
\* '/'.join(['/gcs', THUMBNAIL_CROP_BUCKET, video_id, file_name])
GsFilePath(video_id, file_name) ==
  "gs:/" \o "/" \o THUMBNAIL_CROP_BUCKET \o "/" \o video_id \o "/" \o file_name
FuseFilePath(video_id, file_name) ==
  "/gcs" \o "/" \o THUMBNAIL_CROP_BUCKET \o "/" \o video_id \o "/" \o file_name

\* _generate_cropouts_from_dataframe(): the dict built for one row.
CroppedImage(row, thumbnail, uuid, t) ==
  LET file_name == GenerateThumbnailName(row.thumbnail_url, row.label, uuid)
  IN  [image_object |-> CropoutFromImage(thumbnail, row.top_left_x, row.top_left_y,
                                         row.bottom_right_x, row.bottom_right_y),
       video_id |-> row.video_id,
       thumbnail_url |-> row.thumbnail_url,
       label |-> row.label,
       confidence |-> row.confidence,
       file_name |-> file_name,
       gs_file_path |-> GsFilePath(row.video_id, file_name),
       fuse_file_path |-> FuseFilePath(row.video_id, file_name),
       datetime_updated |-> t]

\* The urls _generate_cropouts_from_dataframe requests: the url of every
\* row of the sorted dataframe that differs from the url before it.
RECURSIVE UrlsToGet(_)
UrlsToGet(sorted) ==
  IF sorted = <<>> THEN <<>>
  ELSE LET rest == UrlsToGet(SubSeq(sorted, 1, Len(sorted) - 1))
           url == sorted[Len(sorted)].thumbnail_url
       IN  IF Len(sorted) > 1 /\ sorted[Len(sorted) - 1].thumbnail_url = url
           THEN rest ELSE Append(rest, url)

\* GenerateCropoutsFromDataframe keeping the rows whose thumbnail is missing.
GenerateCropoutsFromDataframe_NoSkip(cropout_data, answers, uuids, t) ==
  LET sorted == SortValues(cropout_data)
  IN  [j \in DOMAIN sorted |->
         CroppedImage(sorted[j],
                      [url |-> sorted[j].thumbnail_url, width |-> ThumbnailSize.width,
                       height |-> ThumbnailSize.height],
                      uuids[j], t)]

\* _generate_cropouts_from_dataframe(cropout_data) when no request raises:
\* answers[url] is the answer of the CDN, uuids[j] the uuid drawn for the
\* j-th sorted row, t the instant.  Rows without a thumbnail are skipped.
GenerateCropoutsFromDataframe(cropout_data, answers, uuids, t) ==
  LET sorted == SortValues(cropout_data)
      RECURSIVE Loop(_)
      Loop(j) ==
        IF j = 0 THEN <<>>
        ELSE LET row == sorted[j]
                 thumbnail == GetImageFromUrl(row.thumbnail_url, answers[row.thumbnail_url])
             IN  IF thumbnail = None THEN Loop(j - 1)
                 ELSE Append(Loop(j - 1), CroppedImage(row, thumbnail[1], uuids[j], t))
  IN  Loop(Len(sorted))

\* pd.DataFrame(cropouts).drop('image_object', axis=1)
DropImageObject(records) ==
  [j \in DOMAIN records |->
     [f \in DOMAIN records[j] \ {"image_object"} |-> records[j][f]]]

\* _save_image_to_gcs(): full_path = '/'.join([prefix, image_name])
FullPath(prefix, image_name) == prefix \o "/" \o image_name

\* CropoutsWriteResultsToBq loading the records with WRITE_TRUNCATE.
CropoutsWriteResultsToBq_Truncate(table, records) ==
  IF records = <<>> THEN table ELSE records

\* _write_results_to_bq(data, table_id) of the cropout generator: nothing
\* happens for an empty dataframe; otherwise insert_rows_json appends the
\* records (an insert error is only logged).
CropoutsWriteResultsToBq(table, records) ==
  IF records = <<>> THEN table ELSE table \o records

\* What a GET of a thumbnail can come back with, and the answers for which
\* _get_image_from_url raises (requests raises, or PIL.Image.open does).
FetchAnswers == {"200 image/jpeg", "200 text/html", "404", "RequestException"}
FetchRaises(answer) == GetRaises(answer) \/ answer = "200 text/html"

\* The messages and tables an invocation starts from.
CropoutMessages ==
  {[video_id |-> JsonString(v)] : v \in VideoIds}
  \cup {[video_id |-> JsonNumber(7)], [id |-> JsonString(Vid(1))]}
SecondThumbnailOf(video_id) ==
  InsertColumns(ExtractObjectsDfFromThumbnail(
                  [kind |-> "ok", objects |-> <<>>, faces |-> <<FaceAnnotation>>],
                  ThumbnailSize, 1),
                video_id, THUMBNAIL_URL(video_id, "hq2"))
CropSourceTables ==
  {<<>>,
   CarOf(Vid(1)),
   AnnotationsOf(Vid(1)),
   AnnotationsOf(Vid(1)) \o SecondThumbnailOf(Vid(1)) \o CarOf(Vid(2))}
\* The records and blobs an earlier invocation left for a video.
CropoutsOf(video_id) ==
  DropImageObject(
    GenerateCropoutsFromDataframe(
      SourceData(AnnotationsOf(video_id), video_id),
      [u \in {THUMBNAIL_URL(video_id, "hqdefault")} |-> "200 image/jpeg"],
      [j \in 1..2 |-> "0f8fad5b-d9cb-469f-a165-70867728950e"], 0))
BlobsOf(records) ==
  {Blob(FullPath(records[j].video_id, records[j].file_name)) : j \in DOMAIN records}
CropoutTables == {<<>>, CropoutsOf(Vid(2))}

\* Pub/Sub has triggered main().
CropInit ==
  /\ bq_annotations \in CropSourceTables
  /\ bq_cropouts \in CropoutTables
  /\ bucket = BlobsOf(bq_cropouts)
  /\ clock = 0
  /\ crop_event \in CropoutMessages
  /\ cpc = "main"
  /\ crop_total_rows = None /\ source_data = <<>> /\ cropouts = <<>>
  /\ saved = 0 /\ fetched = <<>> /\ crop_raised_by = None

\* An exception leaves main().
CropRaise(exception) ==
  /\ cpc' = "raised"
  /\ crop_raised_by' = Some(exception)

\* main(): the message is validated; run(video_id) is called if it is valid.
CropMain ==
  /\ cpc = "main"
  /\ IF ValidCropoutMessage(crop_event)
     THEN cpc' = "run" /\ UNCHANGED crop_raised_by
     ELSE CropRaise("ValidationError")
  /\ UNCHANGED <<bq_annotations, bucket, clock, bq_cropouts, crop_event,
                 crop_total_rows, source_data, cropouts, saved, fetched>>
  /\ UNCHANGED otherThanCrop

\* run(): the gate query and the test of rows.total_rows.
CropRun ==
  /\ cpc = "run"
  /\ LET n == TotalRows(bq_cropouts, crop_event.video_id.value)
     IN  /\ crop_total_rows' = Some(n)
         /\ cpc' = IF n > 0 THEN "done" ELSE "crop"
  /\ UNCHANGED <<bq_annotations, bucket, clock, bq_cropouts, crop_event,
                 source_data, cropouts, saved, fetched, crop_raised_by>>
  /\ UNCHANGED otherThanCrop

\* _crop_objects_from_video_thubmnails(): the query of the source table
\* and _generate_cropouts_from_dataframe.  An exception of a request is not
\* caught.
CropObjectsFromVideoThumbnails ==
  /\ cpc = "crop"
  /\ \E result \in RowOrders(SourceData(bq_annotations, crop_event.video_id.value)) :
       /\ source_data' = result
       /\ IF result = <<>>
          THEN \* 'There is no record of video'
               /\ cpc' = "done"
               /\ UNCHANGED <<cropouts, fetched, clock, crop_raised_by>>
          ELSE LET urls == UrlsToGet(SortValues(result))
               IN  \E answers \in [Range(urls) -> FetchAnswers],
                      uuids \in [DOMAIN result -> Uuid4s],
                      t \in WallClockReadings :
                     LET requests == [k \in DOMAIN urls |->
                                        [url |-> urls[k], answer |-> answers[urls[k]]]]
                         bad == {k \in DOMAIN urls : FetchRaises(answers[urls[k]])}
                         first_bad == CHOOSE k \in bad : \A m \in bad : k <= m
                     IN  IF bad # {}
                         THEN /\ fetched' = SubSeq(requests, 1, first_bad)
                              /\ CropRaise(IF answers[urls[first_bad]] = "200 text/html"
                                           THEN "UnidentifiedImageError"
                                           ELSE answers[urls[first_bad]])
                              /\ UNCHANGED <<cropouts, clock>>
                         ELSE /\ fetched' = requests
                              /\ cropouts' = GenerateCropoutsFromDataframe(result, answers, uuids, t)
                              /\ clock' = t
                              /\ cpc' = "save"
                              /\ UNCHANGED crop_raised_by
  /\ UNCHANGED <<bq_annotations, bucket, bq_cropouts, crop_event, crop_total_rows, saved>>
  /\ UNCHANGED otherThanCrop

\* One iteration of `for cropout in cropouts`: _save_image_to_gcs uploads
\* the blob, or the upload raises.
SaveCropoutToGcs ==
  /\ cpc = "save" /\ saved < Len(cropouts)
  /\ \E uploaded \in BOOLEAN :
       IF uploaded
       THEN /\ bucket' = bucket \cup {Blob(FullPath(cropouts[saved + 1].video_id,
                                                    cropouts[saved + 1].file_name))}
            /\ saved' = saved + 1
            /\ UNCHANGED <<cpc, crop_raised_by>>
       ELSE CropRaise("GoogleCloudError") /\ UNCHANGED <<bucket, saved>>
  /\ UNCHANGED <<bq_annotations, clock, bq_cropouts, crop_event, crop_total_rows,
                 source_data, cropouts, fetched>>
  /\ UNCHANGED otherThanCrop

\* WriteCropouts not waiting for the uploads.
WriteCropouts_BeforeUploads ==
  /\ cpc = "save" /\ saved <= Len(cropouts)
  /\ IF cropouts = <<>>
     THEN CropRaise("KeyError") /\ UNCHANGED bq_cropouts
     ELSE /\ bq_cropouts' = CropoutsWriteResultsToBq(bq_cropouts, DropImageObject(cropouts))
          /\ cpc' = "done"
          /\ UNCHANGED crop_raised_by
  /\ UNCHANGED <<bq_annotations, bucket, clock, crop_event, crop_total_rows,
                 source_data, cropouts, saved, fetched>>
  /\ UNCHANGED otherThanCrop

\* After the loop: the image objects are dropped (KeyError when the list
\* of cropouts is empty: the dataframe has no such column) and the records
\* are written.
WriteCropouts ==
  /\ cpc = "save" /\ saved = Len(cropouts)
  /\ IF cropouts = <<>>
     THEN CropRaise("KeyError") /\ UNCHANGED bq_cropouts
     ELSE /\ bq_cropouts' = CropoutsWriteResultsToBq(bq_cropouts, DropImageObject(cropouts))
          /\ cpc' = "done"
          /\ UNCHANGED crop_raised_by
  /\ UNCHANGED <<bq_annotations, bucket, clock, crop_event, crop_total_rows,
                 source_data, cropouts, saved, fetched>>
  /\ UNCHANGED otherThanCrop

CropNext ==
  \/ CropMain
  \/ CropRun
  \/ CropObjectsFromVideoThumbnails
  \/ SaveCropoutToGcs
  \/ WriteCropouts

InitThumbnailProcessor ==
  /\ TprocInit /\ ProcIdle /\ DispIdle /\ ThumbIdle /\ CropIdle /\ GateIdle
  /\ bq_table = <<>>

SpecThumbnailProcessor == InitThumbnailProcessor /\ [][TprocNext]_vars

InitCropoutGenerator ==
  /\ CropInit /\ ProcIdle /\ DispIdle /\ ThumbIdle /\ TprocIdle /\ GateIdle
  /\ bq_table = <<>>

SpecCropoutGenerator == InitCropoutGenerator /\ [][CropNext]_vars

(***************************************************************************)
(* The gate queries of the two dispatchers evaluated repeatedly on the     *)
(* same candidates, with writes to the target table in between.            *)
(***************************************************************************)
\* Largest number of distinct candidates, and of steps (evaluations and
\* writes) of one behaviour.
MaxCandidates == 3
MaxGateSteps == 3

GateInit ==
  /\ gate_source \in {VidList(n) \o VidList(d) : n \in 0..MaxCandidates, d \in 0..MaxDup}
  /\ gate_target \in {<<>>, <<NoThumbnailRow(Vid(2), 0)>>}
  /\ gate_limit \in 0..MaxCandidates
  /\ gate_log = <<>>
  /\ batch_message = None /\ CallIdle

GateSteps == Len(gate_log) + Len(gate_target)

\* The gate query of the age-evaluation dispatcher is evaluated.
AgeGateQuery ==
  /\ GateSteps < MaxGateSteps
  /\ \E result \in QueryResults(gate_source, gate_target, gate_limit) :
       gate_log' = Append(gate_log, [gate |-> "age", written |-> Len(gate_target),
                                    ids |-> result])
  /\ UNCHANGED <<gate_source, gate_target, gate_limit>>
  /\ UNCHANGED otherThanGate

\* The gate query of the thumbnail dispatcher is evaluated (the temporary
\* table holds the candidates).
ThumbnailGateQuery ==
  /\ GateSteps < MaxGateSteps
  /\ \E result \in RowOrders(NotIn(gate_source, gate_target)) :
       gate_log' = Append(gate_log, [gate |-> "thumbnail", written |-> Len(gate_target),
                                    ids |-> result])
  /\ UNCHANGED <<gate_source, gate_target, gate_limit>>
  /\ UNCHANGED otherThanGate

\* A processor writes a row for a candidate to the target table.
GateTargetWrite ==
  /\ GateSteps < MaxGateSteps
  /\ \E v \in Range(gate_source) :
       gate_target' = WriteDataToBq(gate_target, <<NoThumbnailRow(v, 1)>>)
  /\ UNCHANGED <<gate_source, gate_limit, gate_log>>
  /\ UNCHANGED otherThanGate

GateNext == AgeGateQuery \/ ThumbnailGateQuery \/ GateTargetWrite

InitGate ==
  /\ GateInit /\ ProcIdle /\ DispIdle /\ ThumbIdle /\ TprocIdle /\ CropIdle
  /\ StoresEmpty /\ bq_table = <<>>

SpecGate == InitGate /\ [][GateNext]_vars

\* The three functions that write to the warehouse tables of the thumbnail
\* pipeline: one of them is triggered.
InitWarehouseWriters ==
  InitProcessor \/ InitThumbnailProcessor \/ InitCropoutGenerator

WarehouseWritersNext == ProcNext \/ TprocNext \/ CropNext

SpecWarehouseWriters == InitWarehouseWriters /\ [][WarehouseWritersNext]_vars

\* The two stages that follow the thumbnail dispatcher: one of them is
\* triggered.
InitThumbnailStages == InitThumbnailProcessor \/ InitCropoutGenerator

ThumbnailStagesNext == TprocNext \/ CropNext

SpecThumbnailStages == InitThumbnailStages /\ [][ThumbnailStagesNext]_vars

(***************************************************************************)
(* Age-evaluation processor: main().                                       *)
(***************************************************************************)
\* ValidBatchMessage without the schema of the items of `videos`.
ValidBatchMessage_ItemsUnchecked(message_json) ==
  /\ {"system_instruction", "prompt", "batch_id", "batch_part", "total_batch_parts",
      "videos"} \subseteq DOMAIN message_json
  /\ \A f \in {"system_instruction", "prompt", "batch_id", "batch_part",
                "total_batch_parts"} : message_json[f].type = "string"
  /\ message_json.videos.type = "array"

\* jsonschema.validate(message_json, message_schema): the six properties
\* are required, five are strings and `videos` is an array of objects whose
\* required property video_id is a string.
ValidBatchMessage(message_json) ==
  /\ {"system_instruction", "prompt", "batch_id", "batch_part", "total_batch_parts",
      "videos"} \subseteq DOMAIN message_json
  /\ \A f \in {"system_instruction", "prompt", "batch_id", "batch_part",
                "total_batch_parts"} : message_json[f].type = "string"
  /\ message_json.videos.type = "array"
  /\ \A k \in DOMAIN message_json.videos.value :
        LET item == message_json.videos.value[k]
        IN  /\ item.type = "object"
            /\ "video_id" \in DOMAIN item.value
            /\ item.value.video_id.type = "string"

\* message_json.get('videos'): the list of dicts handed to run().
VideosOf(message_json) ==
  [k \in DOMAIN message_json.videos.value |->
     [f \in DOMAIN message_json.videos.value[k].value |->
        message_json.videos.value[k].value[f].value]]

\* The batch message of a list of video ids, as the dispatcher builds it.
MessageOfVideos(ids) ==
  [system_instruction |-> JsonString("instruction"),
   prompt |-> JsonString("prompt"),
   batch_id |-> JsonString("batch"),
   batch_part |-> JsonString("1"),
   total_batch_parts |-> JsonString("1"),
   videos |->
     [type |-> "array",
      value |-> [k \in DOMAIN ids |->
                   [type |-> "object", value |-> [video_id |-> JsonString(ids[k])]]]]]

\* Messages that do not match message_schema: a required property is
\* missing, batch_part is a number, `videos` is not an array, an item has no
\* video_id, the video_id of an item is a number.
InvalidBatchMessages ==
  {[f \in DOMAIN MessageOfVideos(<<Vid(1)>>) \ {"prompt"} |->
      MessageOfVideos(<<Vid(1)>>)[f]],
   [MessageOfVideos(<<Vid(1)>>) EXCEPT !.batch_part = JsonNumber(1)],
   [MessageOfVideos(<<Vid(1)>>) EXCEPT !.videos = JsonString(Vid(1))],
   [MessageOfVideos(<<Vid(1)>>) EXCEPT
      !.videos =
         [type |-> "array",
          value |-> <<[type |-> "object", value |-> [video_id |-> JsonString(Vid(1))]],
                      [type |-> "object", value |-> [id |-> JsonString(Vid(2))]]>>]],
   [MessageOfVideos(<<Vid(1)>>) EXCEPT
      !.videos =
         [type |-> "array",
          value |-> <<[type |-> "object", value |-> [video_id |-> JsonNumber(7)]]>>]]}

BatchMessages ==
  {MessageOfVideos(ids) : ids \in SeqsUpTo(VideoIds, MaxBatch)} \cup InvalidBatchMessages

\* Pub/Sub has triggered main() of the processor.
ProcMainInit ==
  /\ batch_message \in {Some(m) : m \in BatchMessages}
  /\ head \in [VideoIds -> CdnStates]
  /\ videos = <<>> /\ vi = 0 /\ thumbnail_urls = <<>> /\ ti = 0 /\ pc = "main"
  /\ now = 0 /\ llm_log = <<>>

\* main(): the message is validated; run(videos=...) is called if it is
\* valid, ValidationError leaves main() otherwise.
ProcMain ==
  /\ pc = "main"
  /\ IF ValidBatchMessage(batch_message[1])
     THEN /\ videos' = VideosOf(batch_message[1])
          /\ vi' = 1
          /\ pc' = "lookup"
     ELSE /\ pc' = "raised"
          /\ UNCHANGED <<videos, vi>>
  /\ UNCHANGED <<thumbnail_urls, ti, head, now, llm_log, bq_table, batch_message>>
  /\ UNCHANGED <<dispVars, thumbVars, tprocVars, cropVars, gateVars, callVars>>

InitProcessorMain ==
  /\ ProcMainInit /\ DispIdle /\ ThumbIdle /\ bq_table = <<>>
  /\ TprocIdle /\ CropIdle /\ StoresEmpty /\ CallIdle
  /\ gate_source = <<>> /\ gate_target = <<>> /\ gate_limit = 0 /\ gate_log = <<>>

\* The three functions that validate their trigger payload against a
\* schema, one of them triggered.
InitValidation == InitProcessorMain \/ InitDispatcher \/ InitThumbnailProcessor
ValidationNext == ProcMain \/ ProcNext \/ DispNext \/ TprocNext
SpecValidation == InitValidation /\ [][ValidationNext]_vars

(***************************************************************************)
(* _cropout_from_image() and _generate_thumbnail_name() of the cropout     *)
(* generator and _get_thumbnail_urls() of the age-evaluation processor,    *)
(* called on their own.                                                    *)
(***************************************************************************)
\* Longest run of replaced characters and underscores in a url.
MaxRun == 5

\* The calls of _cropout_from_image: two image sizes, and for each
\* coordinate 0, 0.25, 1, 1.5 and 120 (in thousandths).
CropCalls ==
  LET images == {[url |-> "thumbnail", width |-> 1280, height |-> 720],
                 [url |-> "thumbnail", width |-> 480, height |-> 360]}
      coordinates == {0, 250, 1000, 1500, 120000}
  IN  {[fn |-> "_cropout_from_image", image |-> image,
        top_left_x |-> tlx, top_left_y |-> tly,
        bottom_right_x |-> brx, bottom_right_y |-> bry] :
         image \in images, tlx \in coordinates, tly \in coordinates,
         brx \in coordinates, bry \in coordinates}

\* The calls of _generate_thumbnail_name: the url of a thumbnail, and urls
\* with a run of up to MaxRun characters among ':', '/' and '_'.
NameCalls ==
  LET RECURSIVE Runs(_)
      Runs(n) == IF n = 0 THEN {""}
                 ELSE {c \o r : c \in {":", "/", "_"}, r \in Runs(n - 1)}
      urls == {"https://i.ytimg.com/vi/abc/hq720.jpg"}
              \cup {"a" \o r \o "b" : r \in UNION {Runs(n) : n \in 0..MaxRun}}
  IN  {[fn |-> "_generate_thumbnail_name", video_url |-> url, label |-> label,
        uuid |-> uuid] :
         url \in urls, label \in Range(OBJECTS_TO_CROP_AND_STORE), uuid \in Uuid4s}

\* The calls of _get_thumbnail_urls: the CDN answers 200 with an image for
\* up to three file names and one of the other answers for the rest, or is
\* in one of the states of CdnStates.
UrlCalls ==
  LET hit_sets == {{a, b, c} : a \in FileNames, b \in FileNames, c \in FileNames}
                  \cup {{}, FileNames}
      cdns == {[f \in FileNames |-> IF f \in hits THEN "200 image/jpeg" ELSE miss] :
                 hits \in hit_sets, miss \in ProbeAnswers \ {"200 image/jpeg"}}
              \cup CdnStates
  IN  {[fn |-> "_get_thumbnail_urls", video_id |-> Vid(1), cdn |-> cdn] : cdn \in cdns}

\* One of the three functions is about to be called.
CallInit ==
  /\ fn_args \in {Some(call) : call \in CropCalls \cup NameCalls \cup UrlCalls}
  /\ fn_result = None

\* _cropout_from_image(image, ...) returns.
CallCropoutFromImage ==
  /\ fn_args # None /\ fn_result = None
  /\ fn_args[1].fn = "_cropout_from_image"
  /\ fn_result' = Some(CropoutFromImage(fn_args[1].image,
                                        fn_args[1].top_left_x, fn_args[1].top_left_y,
                                        fn_args[1].bottom_right_x,
                                        fn_args[1].bottom_right_y))
  /\ UNCHANGED <<fn_args, bq_table, procVars, dispVars, thumbVars, tprocVars,
                 cropVars, gateVars, batch_message>>

\* _generate_thumbnail_name(video_url, label) returns.
CallGenerateThumbnailName ==
  /\ fn_args # None /\ fn_result = None
  /\ fn_args[1].fn = "_generate_thumbnail_name"
  /\ fn_result' = Some(GenerateThumbnailName(fn_args[1].video_url, fn_args[1].label,
                                             fn_args[1].uuid))
  /\ UNCHANGED <<fn_args, bq_table, procVars, dispVars, thumbVars, tprocVars,
                 cropVars, gateVars, batch_message>>

\* _get_thumbnail_urls(video_id) returns.
CallGetThumbnailUrls ==
  /\ fn_args # None /\ fn_result = None
  /\ fn_args[1].fn = "_get_thumbnail_urls"
  /\ fn_result' = Some(GetThumbnailUrls(fn_args[1].cdn, fn_args[1].video_id))
  /\ UNCHANGED <<fn_args, bq_table, procVars, dispVars, thumbVars, tprocVars,
                 cropVars, gateVars, batch_message>>

CallNext == CallCropoutFromImage \/ CallGenerateThumbnailName \/ CallGetThumbnailUrls

InitHelperCalls ==
  /\ CallInit /\ ProcIdle /\ DispIdle /\ ThumbIdle /\ TprocIdle /\ CropIdle
  /\ StoresEmpty /\ bq_table = <<>> /\ batch_message = None
  /\ gate_source = <<>> /\ gate_target = <<>> /\ gate_limit = 0 /\ gate_log = <<>>

SpecHelperCalls == InitHelperCalls /\ [][CallNext]_vars

(***************************************************************************)
(* Properties of the age-evaluation processor.                             *)
(***************************************************************************)
\* The LLM call failed the way _evaluate_thumbnail_age catches.
IsFailedCall(call) == call.outcome.kind \in {"APIError", "text"}

\* The description _evaluate_thumbnail_age puts into the failure dict of a call.
FailureDescription(call) ==
  IF call.outcome.kind = "APIError"
  THEN ApiErrorDescription(call.thumbnail_url, call.outcome.error)
  ELSE JsonErrorDescription(call.thumbnail_url, call.outcome.error)

RowsOfThumbnail(url) ==
  {r \in DOMAIN bq_table :
     /\ "thumbnail_url" \in DOMAIN bq_table[r]
     /\ bq_table[r].thumbnail_url = url}

RowsOfVideo(v) == {r \in DOMAIN bq_table : bq_table[r].video_id = v}

Terminated == pc \in {"done", "raised"}

\* C1: every thumbnail whose LLM call raised an API error or returned text
\* that is not JSON has exactly one failure record carrying the error text in
\* the target table (as many records as failed calls of that thumbnail), and
\* run() does not raise but goes on.
C1_FailureRecordPerFailedCall ==
  /\ pc # "raised"
  /\ \A k \in DOMAIN llm_log :
       IsFailedCall(llm_log[k]) =>
         Cardinality({r \in RowsOfThumbnail(llm_log[k].thumbnail_url) :
                        bq_table[r].evaluated_description = FailureDescription(llm_log[k])})
           = Cardinality({m \in DOMAIN llm_log : llm_log[m] = llm_log[k]})

\* C2: when run() has ended, every video of the batch was handled whatever
\* failed before it: a video without thumbnails has its failure row, and every
\* thumbnail of every other video was sent to the LLM and, where the LLM
\* answered with items, has rows in the target table.
C2_FailuresAreIsolated ==
  Terminated =>
    \A i \in DOMAIN videos :
      LET v == videos[i].video_id
          urls == GetThumbnailUrls(head[v], v)
      IN  IF urls = None
          THEN \E r \in RowsOfVideo(v) : bq_table[r].evaluation_model_id = "NONE"
          ELSE \A j \in DOMAIN urls[1] :
                 /\ \E k \in DOMAIN llm_log : llm_log[k].thumbnail_url = urls[1][j]
                 /\ \A k \in DOMAIN llm_log :
                      ( /\ llm_log[k].thumbnail_url = urls[1][j]
                        /\ llm_log[k].outcome.kind = "json"
                        /\ "items" \in DOMAIN llm_log[k].outcome.body
                        /\ llm_log[k].outcome.body.items # <<>> )
                      => RowsOfThumbnail(urls[1][j]) # {}

\* C3: a video without any resolvable thumbnail has exactly one row per
\* handled occurrence in the batch, that row has evaluation_model_id "NONE",
\* the descriptive message and no evaluated_age, no LLM call was made for the
\* video, and run() never stops at such a video.
C3_NoThumbnailRow ==
  /\ \A v \in VideoIds :
       GetThumbnailUrls(head[v], v) = None =>
         /\ Cardinality(RowsOfVideo(v))
              = Cardinality({i \in DOMAIN videos : i < vi /\ videos[i].video_id = v})
         /\ \A r \in RowsOfVideo(v) :
              /\ bq_table[r].evaluation_model_id = "NONE"
              /\ bq_table[r].evaluated_description
                   = "No usable thumbnails found for video " \o v \o "."
              /\ "evaluated_age" \notin DOMAIN bq_table[r]
         /\ \A k \in DOMAIN llm_log : llm_log[k].video_id # v
  /\ pc = "raised" =>
       GetThumbnailUrls(head[videos[vi].video_id], videos[vi].video_id) # None

\* A batch of two videos was processed to the end, the first video had no
\* thumbnail and got its "NONE" row, and rows of the second video follow it.
C3_Witness ==
  /\ pc = "done" /\ Len(videos) = 2 /\ Len(bq_table) >= 2
  /\ bq_table[1].evaluation_model_id = "NONE"
  /\ bq_table[1].video_id = videos[1].video_id
  /\ bq_table[2].video_id = videos[2].video_id
  /\ videos[1] # videos[2]

\* C4: an LLM response with an `items` array of N entries appends exactly N
\* rows to the target table, one per item in the items' order, all with the
\* video_id and thumbnail_url of the call, the same datetime_updated and the
\* model id of the LLM.
C4_OneRowPerItem ==
  [][ ( /\ pc = "evaluate"
        /\ Len(llm_log') = Len(llm_log) + 1
        /\ llm_log'[Len(llm_log')].outcome.kind = "json"
        /\ "items" \in DOMAIN llm_log'[Len(llm_log')].outcome.body )
      =>
      LET items == llm_log'[Len(llm_log')].outcome.body.items
          base == Len(bq_table)
      IN  /\ Len(bq_table') = base + Len(items)
          /\ SubSeq(bq_table', 1, base) = bq_table
          /\ \A j \in 1..Len(items) :
               /\ bq_table'[base + j].video_id = videos[vi].video_id
               /\ bq_table'[base + j].thumbnail_url = thumbnail_urls[ti]
               /\ bq_table'[base + j].evaluation_model_id = GEMINI_MODEL
               /\ bq_table'[base + j].datetime_updated = bq_table'[base + 1].datetime_updated
               /\ bq_table'[base + j].evaluated_description = items[j].evaluated_description
               /\ bq_table'[base + j].evaluated_age = items[j].evaluated_age
    ]_vars

\* The LLM answered the first call with two items and the table holds the two
\* rows of that thumbnail.
C4_Witness ==
  /\ Len(llm_log) = 1
  /\ llm_log[1].outcome.kind = "json"
  /\ "items" \in DOMAIN llm_log[1].outcome.body
  /\ Len(llm_log[1].outcome.body.items) = 2
  /\ Len(bq_table) = 2
  /\ bq_table[1].thumbnail_url = llm_log[1].thumbnail_url
  /\ bq_table[2].thumbnail_url = llm_log[1].thumbnail_url
  /\ bq_table[1].evaluated_age # bq_table[2].evaluated_age

(***************************************************************************)
(* Properties of the age-evaluation dispatcher.                            *)
(***************************************************************************)
\* The number n is the value of the decimal string s, written without
\* leading zeros.
IsDecimalOf(s, n) ==
  /\ PyInt(s) = Some(n)
  /\ Len(s) = 1 \/ Head(s) # "0"

RECURSIVE ConcatVideosByPart(_)
ConcatVideosByPart(k) ==
  IF k = 0 THEN <<>>
  ELSE ConcatVideosByPart(k - 1)
         \o (CHOOSE m \in Range(messages_to_publish) : IsDecimalOf(m.batch_part, k)).videos

\* C5: for N candidates and batch size B the dispatcher builds ceil(N/B)
\* messages (none, and no publish, for N = 0); the messages' videos lists
\* concatenated in batch_part order are the candidate sequence, and every
\* candidate is in exactly one message.
C5_BatchesPartitionCandidates ==
  LET N == Len(data)
      K == Len(messages_to_publish)
  IN  /\ K * BATCH_SIZE >= N
      /\ K = 0 \/ (K - 1) * BATCH_SIZE < N
      /\ N = 0 => K = 0 /\ publish_futures = <<>>
      /\ \A k \in 1..K :
           Cardinality({j \in 1..K : IsDecimalOf(messages_to_publish[j].batch_part, k)}) = 1
      /\ ConcatVideosByPart(K) = data
      /\ \A i \in DOMAIN data :
           Cardinality({j \in 1..K : data[i] \in Range(messages_to_publish[j].videos)}) = 1

\* Eleven candidates were split into three messages.
C5_Witness ==
  /\ dpc = "publish"
  /\ Len(data) = 11
  /\ Len(messages_to_publish) = 3

\* C6: every batch message has between 1 and BATCH_SIZE videos, and every
\* message but the last of the dispatch has exactly BATCH_SIZE videos.
C6_BatchLengths ==
  \A k \in DOMAIN messages_to_publish :
    /\ Len(messages_to_publish[k].videos) >= 1
    /\ Len(messages_to_publish[k].videos) <= BATCH_SIZE
    /\ k < Len(messages_to_publish) => Len(messages_to_publish[k].videos) = BATCH_SIZE

\* Three messages, two full ones and a shorter last one.
C6_Witness ==
  /\ Len(messages_to_publish) = 3
  /\ Len(messages_to_publish[1].videos) = BATCH_SIZE
  /\ Len(messages_to_publish[2].videos) = BATCH_SIZE
  /\ Len(messages_to_publish[3].videos) = 2

\* C7: the k-th of the K messages of a dispatch carries batch_part = the
\* decimal string of k and total_batch_parts = the decimal string of K; for
\* candidates v1..v5 and batch size 2 the groups are [v1,v2], [v3,v4], [v5]
\* with batch_part "1", "2", "3" and total_batch_parts "3".
C7_BatchPartNumbering ==
  /\ \A k \in DOMAIN messages_to_publish :
       /\ IsDecimalOf(messages_to_publish[k].batch_part, k)
       /\ IsDecimalOf(messages_to_publish[k].total_batch_parts, Len(messages_to_publish))
  /\ LET example == MessagesToPublish(ToRecords(VidList(5)), sheet, 2)
     IN  /\ Len(example) = 3
         /\ example[1].videos = <<[video_id |-> "v1"], [video_id |-> "v2"]>>
         /\ example[2].videos = <<[video_id |-> "v3"], [video_id |-> "v4"]>>
         /\ example[3].videos = <<[video_id |-> "v5"]>>
         /\ example[1].batch_part = <<"1">>
         /\ example[2].batch_part = <<"2">>
         /\ example[3].batch_part = <<"3">>
         /\ \A k \in 1..3 : example[k].total_batch_parts = <<"3">>

\* The third of three messages has been published.
C7_Witness ==
  /\ Len(publish_futures) = 3
  /\ publish_futures[3].message.batch_part = <<"3">>
  /\ publish_futures[3].message.total_batch_parts = <<"3">>
  /\ publish_futures[1].message.batch_part = <<"1">>

\* C8: while _publish_data_as_batch is in its publish loop the next publish
\* can always be issued, whatever the state of the publishes issued before;
\* and when the dispatcher has returned, every message has been handed to
\* Pub/Sub and none of these publishes is still outstanding.
C8_PublishBarrier ==
  /\ dpc = "publish" => ENABLED PublishNext
  /\ dpc = "returned" =>
       /\ Len(publish_futures) = Len(messages_to_publish)
       /\ \A k \in DOMAIN publish_futures :
            publish_futures[k].state \in {"result", "exception"}

\* The dispatcher has returned after three publishes, all acknowledged.
C8_Witness ==
  /\ dpc = "returned"
  /\ Len(publish_futures) = 3
  /\ \A k \in DOMAIN publish_futures : publish_futures[k].state = "result"

\* C9: a failed publish is only logged: each message is handed to Pub/Sub
\* exactly once and in order (no retry), all messages are published whatever
\* happened to earlier ones, the function never raises once publishing has
\* begun, and when it returns the response is the success response.
C9_PublishFailureIsOnlyLogged ==
  /\ Len(publish_futures) <= Len(messages_to_publish)
  /\ \A k \in DOMAIN publish_futures :
       /\ publish_futures[k].message = messages_to_publish[k]
       /\ publish_futures[k].state = "exception" =>
            publish_futures[k].logged \in {"nothing", "Failed to publish"}
  /\ dpc \in {"wait", "returned"} /\ messages_to_publish # <<>> =>
       Len(publish_futures) = Len(messages_to_publish)
  /\ messages_to_publish # <<>> => dpc # "raised"
  /\ dpc = "returned" /\ messages_to_publish # <<>> =>
       /\ http_response # None
       /\ http_response[1].status = 200
       /\ http_response[1].body.status = "Success"

\* The dispatch has returned with the success response although the first
\* publish failed (and was logged) and a later one succeeded.
C9_Witness ==
  /\ dpc = "returned"
  /\ Len(publish_futures) >= 2
  /\ publish_futures[1].state = "exception"
  /\ publish_futures[1].logged = "Failed to publish"
  /\ publish_futures[2].state = "result"
  /\ http_response = Some(SuccessResponse)

(***************************************************************************)
(* Properties of both dispatchers.                                         *)
(***************************************************************************)
NoDuplicates(seq) == \A i, j \in DOMAIN seq : seq[i] = seq[j] => i = j

\* The video ids the age-evaluation dispatcher has handed to Pub/Sub.
RECURSIVE AgePublishedIds(_)
AgePublishedIds(k) ==
  IF k = 0 THEN <<>>
  ELSE AgePublishedIds(k - 1)
         \o [i \in DOMAIN publish_futures[k].message.videos |->
               publish_futures[k].message.videos[i].video_id]

\* The video ids the thumbnail dispatcher has handed to Pub/Sub.
ThumbPublishedIds == [i \in DOMAIN sent |-> sent[i].video_id]

AgeDispatchIsDeduplicated ==
  /\ NoDuplicates(AgePublishedIds(Len(publish_futures)))
  /\ \A v \in Range(AgePublishedIds(Len(publish_futures))) : v \notin TargetIds(bq_table)

ThumbDispatchIsDeduplicated ==
  /\ NoDuplicates(ThumbPublishedIds)
  /\ \A v \in Range(ThumbPublishedIds) : v \notin TargetIds(annotations_table)

\* C10: the video ids published in one dispatch contain no id twice and no id
\* that has a row in the downstream target table read by the gate query, for
\* the age-evaluation dispatcher and for the thumbnail dispatcher.
C10_PublishedIdsAreNewAndDistinct ==
  /\ AgeDispatchIsDeduplicated
  /\ ThumbDispatchIsDeduplicated

(***************************************************************************)
(* Properties of the gates of the thumbnail processor and of the cropout   *)
(* generator.                                                              *)
(***************************************************************************)
\* The stores the two stages write to.
Stores == <<bq_annotations, bq_cropouts, bucket>>

\* Invocation i of the thumbnail processor is at its gate query.
AtGate(i) == rpc[i] = "run"

\* The gate of invocation i found a row (in this state or an earlier one).
Gated(i) == total_rows[i] # None /\ total_rows[i][1] > 0
CropGated == crop_total_rows # None /\ crop_total_rows[1] > 0

\* Invocation i has done nothing of its work.
NoWorkDone(i) ==
  /\ probed[i] = <<>> /\ thumbnails[i] = <<>> /\ vision_log[i] = <<>>
  /\ extracted_objects[i] = <<>> /\ cropout_names[i] = <<>>
CropNoWorkDone ==
  source_data = <<>> /\ fetched = <<>> /\ cropouts = <<>> /\ saved = 0

\* The part of the state that belongs to invocation i.
InvocationState(i) ==
  <<rpc[i], total_rows[i], probed[i], thumbnails[i], extracted_objects[i],
    vision_log[i], cropout_names[i], raised_by[i]>>

\* A step of the thumbnail processor's gate that sees a row of the video in
\* YouTubeThumbnailsWithAnnotations ends the invocation and changes no
\* store; the invocation takes no step afterwards.
ThumbnailProcessorGateSkips ==
  \A i \in Invocations :
    /\ (/\ AtGate(i) /\ ~AtGate(i)'
        /\ \E r \in DOMAIN bq_annotations :
             bq_annotations[r].video_id = event[i].video_id.value)
       => /\ rpc'[i] = "done" /\ Gated(i)' /\ NoWorkDone(i)'
          /\ UNCHANGED Stores
    /\ Gated(i) => /\ UNCHANGED InvocationState(i)
                    /\ rpc[i] = "done" /\ NoWorkDone(i)

\* The same for the cropout generator and YouTubeThumbnailCropouts.
CropoutGeneratorGateSkips ==
  /\ (/\ cpc = "run" /\ cpc' # "run"
      /\ \E r \in DOMAIN bq_cropouts :
           bq_cropouts[r].video_id = crop_event.video_id.value)
     => /\ cpc' = "done" /\ CropGated' /\ CropNoWorkDone'
        /\ UNCHANGED Stores
  /\ CropGated => /\ UNCHANGED cropVars
                   /\ cpc = "done" /\ CropNoWorkDone

\* C11: when the gate of a stage finds at least one row with the triggering
\* video_id in the stage's target table, the invocation does no further
\* work: it requests no thumbnail, calls no vision backend, uploads no blob
\* and writes no row; it leaves every table and the bucket as they are.
C11_GatedInvocationDoesNoWork ==
  [][ThumbnailProcessorGateSkips /\ CropoutGeneratorGateSkips]_vars

\* An invocation of the thumbnail processor has been stopped by its gate
\* while the table held rows of its video.
C11_Witness ==
  \E i \in Invocations :
    /\ Gated(i) /\ rpc[i] = "done"
    /\ TotalRows(bq_annotations, event[i].video_id.value) > 0

(***************************************************************************)
(* Properties of concurrent invocations of the thumbnail processor.        *)
(***************************************************************************)
\* Both invocations were triggered for the same video and both gate queries
\* found no row of it.
BothPassedGate ==
  /\ \A i \in Invocations : total_rows[i] = Some(0)
  /\ event[1].video_id.value = event[2].video_id.value

\* Every row of the table is still there, at the same place and with the
\* same fields, after the step.
RowsKept(table) ==
  /\ Len(table') >= Len(table)
  /\ \A r \in DOMAIN table : table'[r] = table[r]

\* The rows invocation i has extracted from its thumbnails.
ExtractedBy(i) == Concat(extracted_objects[i])

\* C12: the gate is not atomic with the write.  When two invocations for the
\* same video_id have both passed the gate, a step of either of them changes
\* the table only by appending all the rows the invocation has extracted
\* (so the video gets the rows of both invocations, that is duplicates), and
\* every row written before stays as it is.
C12_RaceOnlyDuplicatesRows ==
  [][BothPassedGate =>
       /\ RowsKept(bq_annotations)
       /\ \/ bq_annotations' = bq_annotations
          \/ \E i \in Invocations :
               /\ rpc[i] = "extract" /\ rpc'[i] # "extract"
               /\ bq_annotations' = bq_annotations \o ExtractedBy(i)]_vars

\* Both invocations passed the gate before either wrote, both have written,
\* and the table holds the rows of both: every row of the video twice.
C12_Witness ==
  /\ BothPassedGate
  /\ \A i \in Invocations : rpc[i] = "done" /\ ExtractedBy(i) # <<>>
  /\ ExtractedBy(1) = ExtractedBy(2)
  /\ bq_annotations = ExtractedBy(1) \o ExtractedBy(2)

(***************************************************************************)
(* Properties of the gate queries.                                         *)
(***************************************************************************)
\* The candidates that had no row in the target table when it held its
\* first n rows.
WithoutRow(n) ==
  {v \in Range(gate_source) :
     \A r \in 1..n : gate_target[r].video_id # v}

\* Two evaluations of the same gate with no write in between (the table is
\* only appended to, so its length tells).
SameGateNoWrite(a, b) ==
  gate_log[a].gate = gate_log[b].gate /\ gate_log[a].written = gate_log[b].written

\* C13 as stated: two evaluations of a gate query with the same candidates
\* and no intervening write return the same set of ids, and that set is
\* exactly the candidates with no row in the target table.
C13_GateIsIdempotent ==
  \A a, b \in DOMAIN gate_log :
    SameGateNoWrite(a, b) =>
      /\ Range(gate_log[a].ids) = Range(gate_log[b].ids)
      /\ Range(gate_log[a].ids) = WithoutRow(gate_log[a].written)

\* How often a value occurs in a sequence.
Occurrences(seq, v) == Cardinality({k \in DOMAIN seq : seq[k] = v})

\* C13 amended: the thumbnail dispatcher's gate query returns exactly the
\* candidates with no row in the target table (each as often as the
\* candidates list it), the same for every evaluation without intervening
\* write.  The age-evaluation dispatcher's gate query ends in LIMIT
\* processing_limit: it returns distinct candidates with no row in the target
\* table, min(processing_limit, their number) of them; two evaluations
\* return the same set, all of these candidates, when processing_limit is at
\* least their number.
C13_GateIsIdempotentUpToLimit ==
  \A a \in DOMAIN gate_log :
    LET ids == gate_log[a].ids
        expected == WithoutRow(gate_log[a].written)
    IN  IF gate_log[a].gate = "thumbnail"
        THEN /\ Range(ids) = expected
             /\ \A v \in expected : Occurrences(ids, v) = Occurrences(gate_source, v)
        ELSE /\ Range(ids) \subseteq expected
             /\ \A v \in Range(ids) : Occurrences(ids, v) = 1
             /\ Len(ids) = Min(gate_limit, Cardinality(expected))
             /\ gate_limit >= Cardinality(expected) => Range(ids) = expected

\* The gate query of the age-evaluation dispatcher was evaluated twice on
\* three candidates of which one has a row, without a write in between and
\* with a limit that does not cut the result: the two results list the same
\* ids in different orders.
C13_Witness ==
  /\ Len(gate_log) = 2 /\ SameGateNoWrite(1, 2)
  /\ gate_log[1].gate = "age"
  /\ Cardinality(Range(gate_source)) = 3
  /\ Cardinality(WithoutRow(Len(gate_target))) = 2
  /\ gate_limit = 2
  /\ gate_log[1].ids # gate_log[2].ids

(***************************************************************************)
(* Properties of the warehouse tables.                                     *)
(***************************************************************************)
\* C14: the writes to the annotation table, to the cropout table and to the
\* age-evaluation table are append-only: a row that is in a table stays in
\* it, at its place and with the fields it has, in every step of the
\* functions that write to the tables.
C14_TablesAreAppendOnly ==
  [][/\ RowsKept(bq_annotations)
     /\ RowsKept(bq_cropouts)
     /\ RowsKept(bq_table)]_vars

\* The cropout generator has written the records of a video behind the
\* records an earlier invocation left for another video.
C14_Witness ==
  /\ cpc = "done" /\ crop_total_rows = Some(0)
  /\ Len(bq_cropouts) > Len(CropoutsOf(Vid(2)))
  /\ SubSeq(bq_cropouts, 1, Len(CropoutsOf(Vid(2)))) = CropoutsOf(Vid(2))
  /\ bq_cropouts[Len(bq_cropouts)].video_id = Vid(1)

(***************************************************************************)
(* Properties of the cropout generator.                                    *)
(***************************************************************************)
\* The blob a record of the cropout table points to is in the bucket, as a
\* JPEG.
BlobIsUploaded(record) ==
  \E blob \in bucket :
    /\ record.gs_file_path = "gs://" \o THUMBNAIL_CROP_BUCKET \o "/" \o blob.name
    /\ blob.content_type = "image/jpeg"

\* The records of the cropout table that belong to the triggering video.
CropoutRecords ==
  SelectSeq(bq_cropouts, LAMBDA record : record.video_id = crop_event.video_id.value)

\* C15: the cropout generator uploads, then records: every record of the
\* cropout table points to a blob that has been uploaded, and when an upload
\* has failed no record of the video is written.
C15_UploadThenRecord ==
  /\ \A r \in DOMAIN bq_cropouts : BlobIsUploaded(bq_cropouts[r])
  /\ crop_raised_by = Some("GoogleCloudError") => CropoutRecords = <<>>

\* The generator has uploaded two blobs and then written their two records.
C15_Witness ==
  /\ cpc = "done" /\ saved = 2 /\ Len(CropoutRecords) = 2
  /\ CropoutRecords[1].gs_file_path # CropoutRecords[2].gs_file_path

\* The invocation has passed the gate and returned.
CropCompleted == cpc = "done" /\ crop_total_rows = Some(0)

\* The rows of the annotation table of the triggering video whose label is
\* in the allow-list, and those of them with the given thumbnail and label.
AllowListed ==
  {r \in DOMAIN bq_annotations :
     /\ bq_annotations[r].video_id = crop_event.video_id.value
     /\ bq_annotations[r].label \in {"Face", "Person"}}
AnnotationsWith(url, label) ==
  {r \in AllowListed : /\ bq_annotations[r].thumbnail_url = url
                       /\ bq_annotations[r].label = label}
RecordsWith(url, label) ==
  {r \in DOMAIN CropoutRecords : /\ CropoutRecords[r].thumbnail_url = url
                                 /\ CropoutRecords[r].label = label}

\* C16 as stated: when the cropout generator has processed a video, the
\* cropout table holds one record per annotation row of the video whose
\* label is Face or Person.
C16_OneRecordPerAllowListedRow ==
  CropCompleted => Len(CropoutRecords) = Cardinality(AllowListed)

\* C16: when the cropout generator has processed a video, the cropout table
\* holds one record per annotation row of the video whose label is Face or
\* Person and whose thumbnail was answered with status 200, none for a row
\* whose thumbnail was answered otherwise, and none for another label; an
\* invocation that raises after the gate writes no record.
C16_OneRecordPerFetchedAllowListedRow ==
  /\ CropCompleted =>
        /\ \A r \in DOMAIN CropoutRecords :
              /\ CropoutRecords[r].label \in {"Face", "Person"}
              /\ \E k \in DOMAIN fetched : fetched[k].url = CropoutRecords[r].thumbnail_url
        /\ \A k \in DOMAIN fetched : \A label \in {"Face", "Person"} :
              Cardinality(RecordsWith(fetched[k].url, label))
                = IF fetched[k].answer = "200 image/jpeg"
                  THEN Cardinality(AnnotationsWith(fetched[k].url, label))
                  ELSE 0
  /\ cpc = "raised" /\ crop_total_rows = Some(0) => CropoutRecords = <<>>

\* Of the two thumbnails of a video one was answered with 404: the records
\* of the other one are written, and the video has a Car row without record.
C16_Witness ==
  /\ CropCompleted
  /\ \E k, m \in DOMAIN fetched : /\ fetched[k].answer = "404"
                                  /\ fetched[m].answer = "200 image/jpeg"
  /\ CropoutRecords # <<>>
  /\ Len(CropoutRecords) < Cardinality(AllowListed)
  /\ \E r \in DOMAIN bq_annotations :
        /\ bq_annotations[r].video_id = crop_event.video_id.value
        /\ bq_annotations[r].label = "Car"

(***************************************************************************)
(* Properties of the thumbnail processor's error handling.                 *)
(***************************************************************************)
\* The vision backend has failed for a thumbnail of invocation i.
VisionFailed(i) ==
  \E k \in DOMAIN vision_log[i] : vision_log[i][k].kind = "GoogleAPICallError"

\* Invocation i has returned or raised.
Ended(i) == rpc[i] \in {"done", "raised"}

\* C17: an error of the vision backend for one thumbnail fails that
\* thumbnail only: when the invocation has ended, every resolved thumbnail
\* has been handed to the backend and the rows of the thumbnails that were
\* annotated are in the annotation table.
C17_VisionErrorFailsOneThumbnailOnly ==
  \A i \in Invocations :
    Ended(i) /\ VisionFailed(i) =>
      /\ Len(vision_log[i]) = Len(thumbnails[i])
      /\ \A k \in DOMAIN extracted_objects[i] :
            \A r \in DOMAIN extracted_objects[i][k] :
              \E w \in DOMAIN bq_annotations :
                bq_annotations[w] = extracted_objects[i][k][r]

(***************************************************************************)
(* Properties of the validation of the trigger payloads.                   *)
(***************************************************************************)
\* The processor was triggered with a message that does not match its
\* schema: run() is not called.
ProcessorStopsAtValidation ==
  batch_message # None /\ batch_message[1] \in InvalidBatchMessages =>
    /\ pc \in {"main", "raised"}
    /\ videos = <<>> /\ vi = 0 /\ thumbnail_urls = <<>> /\ llm_log = <<>>
    /\ bq_table = <<>>

\* The dispatcher was called with a request that lacks a property or has a
\* property that is not a string: status 400, nothing queried or published.
DispatcherStopsAtValidation ==
  /\ dpc # "idle"
  /\ \/ {"processing_limit", "sheet_id"} \ DOMAIN request_json # {}
     \/ \E f \in DOMAIN request_json : request_json[f].type # "string"
  => /\ dpc \in {"start", "returned"}
     /\ dpc = "returned" =>
           http_response = Some([status |-> 400, body |-> [status |-> "Failed"]])
     /\ data = <<>> /\ messages_to_publish = <<>> /\ publish_futures = <<>>
     /\ bq_table \in TargetTables

\* The message of invocation i of the thumbnail processor has no video_id
\* or one that is not a string.
InvalidEvent(i) ==
  /\ event[i] # None
  /\ \/ "video_id" \notin DOMAIN event[i]
     \/ event[i].video_id.type # "string"

\* Such an invocation raises ValidationError without a query, a probe, a
\* vision call or an upload; if no other invocation runs, the annotation
\* table and the bucket are as they were.
ThumbnailProcessorStopsAtValidation ==
  \A i \in Invocations :
    InvalidEvent(i) =>
      /\ rpc[i] \in {"main", "raised"}
      /\ rpc[i] = "raised" => raised_by[i] = Some("ValidationError")
      /\ total_rows[i] = None /\ probed[i] = <<>> /\ thumbnails[i] = <<>>
      /\ vision_log[i] = <<>> /\ extracted_objects[i] = <<>> /\ cropout_names[i] = <<>>
      /\ (\A j \in Invocations \ {i} : event[j] = None) =>
            bq_annotations \in AnnotatedTables /\ bucket = {}

\* C18: a trigger payload that does not match the schema of its function
\* stops the function at validation: run() is not called, nothing is
\* queried, written, published or uploaded; the Pub/Sub functions raise
\* ValidationError and the HTTP dispatcher answers 400 with status Failed.
C18_InvalidPayloadStopsAtValidation ==
  /\ ProcessorStopsAtValidation
  /\ DispatcherStopsAtValidation
  /\ ThumbnailProcessorStopsAtValidation

\* The processor has raised on a message whose second video has no
\* video_id.
C18_Witness ==
  /\ batch_message # None /\ batch_message[1] \in InvalidBatchMessages
  /\ "videos" \in DOMAIN batch_message[1]
  /\ batch_message[1].videos.type = "array"
  /\ Len(batch_message[1].videos.value) = 2
  /\ pc = "raised"

(***************************************************************************)
(* Properties of the thumbnail resolution of the thumbnail processor.      *)
(***************************************************************************)
\* The urls of tier k for the video of invocation i, in listed order.
TierUrls(i, k) ==
  [j \in DOMAIN ThumbnailSets[k] |->
     THUMBNAIL_URL(event[i].video_id.value, ThumbnailSets[k][j])]

\* The urls of tier k that invocation i has requested, and the ones it got.
Tried(i, k) == SelectSeq(probed[i], LAMBDA u : u \in Range(TierUrls(i, k)))
Resolved(i, k) == SelectSeq(thumbnails[i], LAMBDA u : u \in Range(TierUrls(i, k)))

\* The CDN answers the j-th file name of tier k with status 200.
Answers200(k, j) == ytimg[ThumbnailSets[k][j]] \in {"200 image/jpeg", "200 text/html"}

\* An exception has left the resolution of invocation i.
ResolutionRaised(i) ==
  /\ rpc[i] = "raised"
  /\ raised_by[i] \in {Some("Timeout"), Some("RequestException"),
                       Some("UnidentifiedImageError")}

C20_FailedProbeIsNotFound ==
  \A i \in Invocations :
    probed[i] # <<>> =>
      /\ ~ResolutionRaised(i)
      /\ \A k \in DOMAIN ThumbnailSets :
            LET n == Len(Tried(i, k))
            IN  \/ n = Len(ThumbnailSets[k])
                \/ n > 0 /\ ytimg[ThumbnailSets[k][n]] = "200 image/jpeg"

(***************************************************************************)
(* Properties of _cropout_from_image of the cropout generator.             *)
(***************************************************************************)
\* _cropout_from_image has returned.
CroppedOut ==
  /\ fn_result # None
  /\ fn_args[1].fn = "_cropout_from_image"

\* C21: with bottom_right_x = 0 and bottom_right_y = 0 the function returns
\* the image it was given, whatever the top-left coordinates and the size of
\* the image are, also when all four coordinates are at most 1.
C21_SentinelReturnsTheImage ==
  CroppedOut /\ fn_args[1].bottom_right_x = 0 /\ fn_args[1].bottom_right_y = 0
    => fn_result[1] = fn_args[1].image

\* The sentinel with a top-left corner that is not the origin, one
\* coordinate relative and one absolute.
C21_Witness ==
  /\ CroppedOut
  /\ fn_args[1].bottom_right_x = 0 /\ fn_args[1].bottom_right_y = 0
  /\ fn_args[1].top_left_x = 250 /\ fn_args[1].top_left_y = 1500
  /\ fn_result[1] = fn_args[1].image

Named ==
  /\ fn_result # None
  /\ fn_args[1].fn = "_generate_thumbnail_name"

\* The part of the returned name after '{label}-', its first six characters
\* and what follows their hyphen.
AfterLabel == SubSeq(fn_result[1], Len(fn_args[1].label) + 2, Len(fn_result[1]))
RandomPart == SubSeq(AfterLabel, 1, 6)
UrlPart == SubSeq(AfterLabel, 8, Len(AfterLabel))

\* The name is {label}-{six lowercase hexadecimal digits}-{url part}.
HasNameForm ==
  /\ SubSeq(fn_result[1], 1, Len(fn_args[1].label) + 1) = fn_args[1].label \o "-"
  /\ Len(AfterLabel) >= 7
  /\ \A k \in 1..6 :
        \E d \in 1..16 : SubSeq(RandomPart, k, k) = SubSeq("0123456789abcdef", d, d)
  /\ SubSeq(AfterLabel, 7, 7) = "-"

\* String s has a character of the set, and n characters of the set in a row.
HasCharOf(s, set) == \E k \in 1..Len(s) : SubSeq(s, k, k) \in set
HasRunOf(s, set, n) ==
  \E k \in 1..(Len(s) - n + 1) : \A m \in k..(k + n - 1) : SubSeq(s, m, m) \in set

ReplacedChars == {":", "/", ".", "?", "#", "&", "=", "+"}

\* C27 as stated: the name has the form {label}-{6 hex}-{sanitized url}; the
\* url part has none of the characters : / . ? # & = + and no two underscores
\* in a row; for https://i.ytimg.com/vi/abc/hq720.jpg the url part is
\* https___i_ytimg_com_vi_abc_hq720_jpg.
C27_NameIsSanitized ==
  Named =>
    /\ HasNameForm
    /\ ~HasCharOf(UrlPart, ReplacedChars)
    /\ ~HasRunOf(UrlPart, {"_"}, 2)
    /\ fn_args[1].video_url = "https://i.ytimg.com/vi/abc/hq720.jpg" =>
          UrlPart = "https___i_ytimg_com_vi_abc_hq720_jpg"

\* C27: the name has the form {label}-{6 hex}-{sanitized url}; the url part
\* has none of the characters : / . ? # & = +; it has no two underscores in a
\* row when the url has no run of more than four replaced characters and
\* underscores; for https://i.ytimg.com/vi/abc/hq720.jpg the url part is
\* https_i_ytimg_com_vi_abc_hq720_jpg.
C27_NameIsSanitizedUpToRunsOfFour ==
  Named =>
    /\ HasNameForm
    /\ ~HasCharOf(UrlPart, ReplacedChars)
    /\ ~HasRunOf(fn_args[1].video_url, ReplacedChars \cup {"_"}, 5) =>
          ~HasRunOf(UrlPart, {"_"}, 2)
    /\ fn_args[1].video_url = "https://i.ytimg.com/vi/abc/hq720.jpg" =>
          UrlPart = "https_i_ytimg_com_vi_abc_hq720_jpg"

\* The name of a Face of https://i.ytimg.com/vi/abc/hq720.jpg, whose "://"
\* has become one underscore.
C27_Witness ==
  /\ Named
  /\ fn_args[1].label = "Face"
  /\ fn_args[1].video_url = "https://i.ytimg.com/vi/abc/hq720.jpg"
  /\ fn_result[1] = "Face-" \o RandomPart \o "-https_i_ytimg_com_vi_abc_hq720_jpg"

(***************************************************************************)
(* Properties of the batch run of the age-evaluation processor.            *)
(***************************************************************************)
\* The calls of the LLM for a thumbnail url.
CallsOf(url) == {k \in DOMAIN llm_log : llm_log[k].thumbnail_url = url}

\* C23: run() moves every video from the lookup to NO_THUMBNAIL or through
\* the evaluation of each of its thumbnails, which ends in EVAL_FAILED or
\* EVAL_OK, and to nothing else; when run() has ended every video is in a
\* terminal state: without thumbnail and with its failure row, or with every
\* thumbnail evaluated and holding a failure row (failed call) or the rows
\* of its items.
C23_VideosEndInTerminalStates ==
  /\ pc \in {"idle", "lookup", "evaluate", "done"}
  /\ pc = "done" =>
       \A i \in DOMAIN videos :
         LET v == videos[i].video_id
             urls == GetThumbnailUrls(head[v], v)
         IN  IF urls = None
             THEN \E r \in RowsOfVideo(v) : bq_table[r].evaluation_model_id = "NONE"
             ELSE \A j \in DOMAIN urls[1] :
                    /\ CallsOf(urls[1][j]) # {}
                    /\ \A k \in CallsOf(urls[1][j]) :
                         IF IsFailedCall(llm_log[k])
                         THEN \E r \in RowsOfThumbnail(urls[1][j]) :
                                bq_table[r].evaluated_description
                                  = FailureDescription(llm_log[k])
                         ELSE /\ "items" \in DOMAIN llm_log[k].outcome.body
                              /\ Cardinality(RowsOfThumbnail(urls[1][j]))
                                   >= Len(llm_log[k].outcome.body.items)

\* C28: when run() has returned, every video of the batch has at least one
\* row in the target table, whatever the lookups and the LLM answered, an
\* empty `items` array included.
C28_EveryVideoHasARowAfterRun ==
  pc = "done" => \A i \in DOMAIN videos : RowsOfVideo(videos[i].video_id) # {}

(***************************************************************************)
(* A processor invocation that is killed (timeout, restart of the          *)
(* instance), followed by the next dispatch over the same tables.          *)
(***************************************************************************)
\* The platform ends the invocation somewhere in the loops of run(): nothing
\* is undone, nothing more is written.
Kill ==
  /\ pc \in {"lookup", "evaluate"}
  /\ pc' = "killed"
  /\ UNCHANGED <<videos, vi, thumbnail_urls, ti, head, now, llm_log, bq_table>>
  /\ UNCHANGED otherThanProc

\* The scheduler calls the dispatcher again: main() of the dispatcher with a
\* valid request and age evaluation enabled, over the target table as the
\* killed invocation left it. The source table holds the videos of the batch
\* (it is where the batch was selected from), possibly with another video.
NextDispatch ==
  /\ pc = "killed" /\ dpc = "idle"
  /\ \E n \in {1, 3} :
       request_json' = [processing_limit |-> JsonString(PyStr(n)),
                        sheet_id |-> JsonString("sheet")]
  /\ sheet' \in {sh \in Sheets : sh.settings.use_gemini_to_evaluate_age = "Enabled"}
  /\ LET ids == [i \in DOMAIN videos |-> videos[i].video_id]
     IN  source_table' \in {ids, ids \o <<Vid(3)>>}
  /\ dpc' = "start"
  /\ UNCHANGED <<data, messages_to_publish, publish_futures, http_response, bq_table>>
  /\ UNCHANGED otherThanDisp

KilledBatchNext ==
  \/ ProcNext
  \/ Kill
  \/ NextDispatch
  \/ NoThumbnailsToProcess
  \/ BuildMessages
  \/ PublishNext
  \/ CompletePublish
  \/ Callback
  \/ WaitAllCompleted

\* main() calls run() with a batch of one video, of two videos, or of the
\* same video twice.
InitKilledBatch ==
  /\ videos \in {<<[video_id |-> Vid(1)]>>,
                  <<[video_id |-> Vid(1)], [video_id |-> Vid(2)]>>,
                  <<[video_id |-> Vid(2)], [video_id |-> Vid(2)]>>}
  /\ InitProcessor

SpecKilledBatch == InitKilledBatch /\ [][KilledBatchNext]_vars

\* The next dispatch has run its query.
Queried == dpc \notin {"idle", "start"}

\* The videos of the source table without a row in the target table.
SourceWithoutRow == {v \in Range(source_table) : RowsOfVideo(v) = {}}

\* The videos the dispatch has selected.
Selected == {data[k].video_id : k \in DOMAIN data}

\* C24: when a processor invocation is killed, the rows it has written stay
\* in the target table, and the next dispatch selects only videos without a
\* row, each once, and all of them up to the processing limit: every video of
\* the batch that has no row is selected again when the limit allows, no
\* video that has a row is.
C24_KilledBatchIsSelectedAgain ==
  [][pc' = "killed" =>
       /\ bq_table' = bq_table
       /\ Queried' =>
            /\ Selected' \subseteq SourceWithoutRow'
            /\ Len(data') = Cardinality(Selected')
            /\ Cardinality(Selected')
                 = Min(PyInt(request_json'.processing_limit.value)[1],
                       Cardinality(SourceWithoutRow'))]_vars

\* A batch of two videos is killed after the rows of the first were written,
\* and the next dispatch selects the second and not the first.
C24_Witness ==
  /\ pc = "killed" /\ Queried /\ Len(videos) = 2
  /\ RowsOfVideo(videos[1].video_id) # {}
  /\ Selected = {videos[2].video_id}
  /\ videos[2].video_id # videos[1].video_id

(***************************************************************************)
(* Properties of temp_table_from_csv().                                    *)
(***************************************************************************)
\* C25: when update_table is rejected with PreconditionFailed,
\* temp_table_from_csv calls it exactly once more; when the second call
\* succeeds the dispatch goes on to its query, when it fails the exception
\* ends the invocation with no video dispatched; update_table is never
\* called more than twice.
C25_ExpirationIsRetriedOnce ==
  [][/\ tpc # "raised"
     /\ update_calls' <= 2
     /\ (tpc = "update" /\ tpc' = "retry") => update_calls' = 1
     /\ tpc = "retry" =>
          /\ update_calls' = 2
          /\ tpc' \in {"query", "raised"}
     /\ tpc' = "raised" => (update_calls' = 2 /\ rows' = <<>> /\ sent' = <<>>)
     /\ tpc' \in {"send", "done"} => update_calls' \in {1, 2}]_vars

\* The first update_table was rejected, the second succeeded, and the
\* dispatch has published its videos.
C25_Witness ==
  tpc = "done" /\ update_calls = 2 /\ sent # <<>>

(***************************************************************************)
(* Properties of _get_thumbnail_urls().                                    *)
(***************************************************************************)
\* _get_thumbnail_urls has been called and has returned.
Looked == fn_result # None /\ fn_args[1].fn = "_get_thumbnail_urls"

\* The prefixes (positions) that answer 200 with an image for suffix s.
HitsOf(s) ==
  {p \in DOMAIN prefixes :
     fn_args[1].cdn[prefixes[p] \o suffixes[s]] = "200 image/jpeg"}

\* The suffix groups with a hit.
HitGroups == {s \in DOMAIN suffixes : HitsOf(s) # {}}

\* C26: _get_thumbnail_urls returns None when no suffix group has a hit, and
\* otherwise one url per suffix group with a hit, in the order default, 1,
\* 2, 3: the url of the first prefix of maxres, sd, hq, mq, '' that answers
\* 200 with an image content type.
C26_BestUrlPerSuffixGroup ==
  Looked =>
    IF HitGroups = {} THEN fn_result[1] = None
    ELSE /\ fn_result[1] # None
         /\ Len(fn_result[1][1]) = Cardinality(HitGroups)
         /\ \A s \in HitGroups :
              LET k == Cardinality({t \in HitGroups : t <= s})
                  best == CHOOSE p \in HitsOf(s) : \A q \in HitsOf(s) : p <= q
              IN  fn_result[1][1][k]
                    = ThumbnailUrl(fn_args[1].video_id, prefixes[best], suffixes[s])

\* Two prefixes of group 1 and one of group 3 hit, the group default has no
\* hit: two urls are returned.
C26_Witness ==
  /\ Looked
  /\ HitGroups = {2, 4} /\ Cardinality(HitsOf(2)) = 2
  /\ Len(fn_result[1][1]) = 2

(***************************************************************************)
(* Properties of _process_video() when no thumbnail is resolved.           *)
(***************************************************************************)
\* Invocation i has requested every file name of every tier and none was
\* answered with status 200.
NoTierResolved(i) ==
  /\ thumbnails[i] = <<>> /\ ~ResolutionRaised(i)
  /\ \A k \in DOMAIN ThumbnailSets : Len(Tried(i, k)) = Len(ThumbnailSets[k])

\* C29: when none of the four tiers resolves to a thumbnail, _process_video
\* completes without raising, and has written no annotation row and
\* uploaded no cropout.
C29_NoThumbnailCompletesQuietly ==
  \A i \in Invocations :
    NoTierResolved(i) =>
      /\ rpc[i] # "raised"
      /\ extracted_objects[i] = <<>> /\ cropout_names[i] = <<>>

(***************************************************************************)
(* Properties of the size of one age-evaluation dispatch.                  *)
(***************************************************************************)
\* The number of videos carried by the first n messages of a sequence.
RECURSIVE VideosCarried(_, _)
VideosCarried(messages, n) ==
  IF n = 0 THEN 0
  ELSE Len(messages[n].videos) + VideosCarried(messages, n - 1)

\* C30: the messages of one dispatch, those built and those handed to
\* Pub/Sub, carry together at most processing_limit videos.
C30_DispatchWithinProcessingLimit ==
  messages_to_publish # <<>> =>
    LET limit == PyInt(request_json.processing_limit.value)[1]
        published == [k \in DOMAIN publish_futures |-> publish_futures[k].message]
    IN  /\ VideosCarried(messages_to_publish, Len(messages_to_publish)) <= limit
        /\ VideosCarried(published, Len(published)) <= limit

\* A dispatch with more candidates than its limit has published two
\* messages that carry as many videos as the limit allows.
C30_Witness ==
  /\ dpc = "returned" /\ Len(publish_futures) = 2
  /\ Len(Unprocessed(source_table, bq_table))
       > PyInt(request_json.processing_limit.value)[1]
  /\ VideosCarried(messages_to_publish, 2)
       = PyInt(request_json.processing_limit.value)[1]
====
